---- MODULE Spec2Model ----
(***************************************************************************)
(* State-machine model of the notification core of the iobapp adapter      *)
(* (src/main.js, the snapshot starting at line 690): the connection        *)
(* registry `clients`, the per-client `messageQueue`, the dispatcher       *)
(* handleAPNMessage, the registration branch of handleWebSocketMessage,    *)
(* the stateChange trigger and the payload builder generatePayload.        *)
(*                                                                         *)
(* Node runs every handler on one thread: the code between two `await`s    *)
(* is one atomic step, and handlers interleave at their `await`s.  Each    *)
(* action below is one such step.                                          *)
(***************************************************************************)
EXTENDS Integers, Sequences, FiniteSets, TLC

\* ------------------------------------------------------------------------
\* Bounds of the model
\* ------------------------------------------------------------------------
MaxEvents == 3      \* external state writes plus inbound transport messages
MaxBuilds == 1      \* external send requests where the notification fields vary
MaxRequests == 2    \* external writes where store calls may be rejected
MaxInbound == 2     \* inbound transport messages where every kind is sent

\* ------------------------------------------------------------------------
\* JavaScript values: <<type, text>>
\* ------------------------------------------------------------------------
Undefined == <<"undefined", "">>
Null == <<"null", "">>
Str(s) == <<"string", s>>
Bool(b) == <<"boolean", IF b THEN "true" ELSE "false">>
Num(n) == <<"number", ToString(n)>>

\* ToBoolean: what `if (v)`, `v || x` and `filter(val => val)` test
Truthy(v) == v \notin {Undefined, Null, Str(""), Bool(FALSE), Num(0)}

\* `${v}` inside a template literal
Interpolate(v) == IF v[1] \in {"string", "boolean", "number"} THEN v[2] ELSE v[1]

\* Maps (JS Map / object) as functions with a finite domain
Put(map, k, v) == [x \in (DOMAIN map) \cup {k} |-> IF x = k THEN v ELSE map[x]]
Del(map, k) == [x \in (DOMAIN map) \ {k} |-> map[x]]
EmptyMap == [x \in {} |-> Undefined]

\* ------------------------------------------------------------------------
\* The environment: namespace, configuration, the inputs that are enumerated
\* ------------------------------------------------------------------------
NS == <<"iobapp", "0">>                       \* this.namespace
ConfigUsername == "user"                      \* this.config.username
ConfigPassword == "secret"                    \* this.config.password

SocketOrder == <<"s1", "s2">>                 \* transport sessions, as accepted
Sockets == {SocketOrder[i] : i \in 1..Len(SocketOrder)}
ClientIds == {Str("c1"), Str("c2"), Str("c3")} \* client identifiers on the wire
\* devices (person, device) a client may register for, in key order
Devices == << <<"alice", "phone">>, <<"alice", "watch">>, <<"bob", "tablet">>,
             <<"payload", "phone">> >>

\* Ids are kept split at the dots: id.split('.') is the sequence itself.
WsDeviceIdPath(person, device) == NS \o <<"person", person, device, "ws_device_id">>
ConnectionPath(devicePath) == NS \o <<"person">> \o devicePath \o <<"connection">>
DevicePayloadId(person, device) == NS \o <<"person", person, device, "messages", "payload">>
PersonPayloadId(person) == NS \o <<"person", person, "messages", "payload">>
GlobalPayloadId == NS \o <<"messages", "payload">>
DeviceSendId(person, device) == NS \o <<"person", person, device, "messages", "send">>
PersonSendId(person) == NS \o <<"person", person, "messages", "send">>
GlobalSendId == NS \o <<"messages", "send">>

\* the `payload` ids external actors write in this model
PayloadIds == {DevicePayloadId("alice", "phone"), PersonPayloadId("alice")}

\* order in which getStatesAsync returns the keys of the store
KeyOrder == [i \in 1..Len(Devices) |-> WsDeviceIdPath(Devices[i][1], Devices[i][2])]

\* ------------------------------------------------------------------------
\* JSON: payload texts, notification messages, transport frames
\* ------------------------------------------------------------------------
\* The text the k-th external write stores in `payload` (distinct per write).
PayloadText(k) == "{\"aps\":{\"alert\":{\"title\":\"m" \o ToString(k) \o "\"}}}"
PayloadTexts == {PayloadText(k) : k \in 1..MaxEvents}

\* A notification object as JSON.parse yields it and generatePayload builds it:
\* the own properties of the object (top), of its `aps` and of `aps.alert`, in
\* three maps.  `aps` and `alert` hold the marker Obj where they are present.
Obj == <<"object", "">>
TopKeys == <<"aps", "body-html", "media-url", "image-url", "video-url">>
ApsKeys == <<"alert", "sound">>
AlertKeys == <<"title", "subtitle", "body">>
Notification(top, aps, alert) == [top |-> top, aps |-> aps, alert |-> alert]

\* JSON.stringify: the members whose value is not undefined, in property order
Quoted(s) == "\"" \o s \o "\""
RECURSIVE Join(_)
Join(texts) ==
    IF Len(texts) = 0 THEN ""
    ELSE IF Len(texts) = 1 THEN texts[1]
    ELSE texts[1] \o "," \o Join(Tail(texts))
Defined(map, keys) ==
    SelectSeq(keys, LAMBDA k : k \in DOMAIN map /\ map[k] # Undefined)
ValueText(v) ==
    IF v[1] = "string" THEN Quoted(v[2])
    ELSE IF v[1] \in {"boolean", "number"} THEN v[2]
    ELSE v[1]
AlertText(n) ==
    LET ks == Defined(n.alert, AlertKeys)
    IN  "{" \o Join([i \in 1..Len(ks) |-> Quoted(ks[i]) \o ":" \o ValueText(n.alert[ks[i]])])
            \o "}"
ApsText(n) ==
    LET ks == Defined(n.aps, ApsKeys)
    IN  "{" \o Join([i \in 1..Len(ks) |->
                        Quoted(ks[i]) \o ":" \o
                            (IF ks[i] = "alert" THEN AlertText(n)
                             ELSE ValueText(n.aps[ks[i]]))])
            \o "}"
StringifyNotification(n) ==
    LET ks == Defined(n.top, TopKeys)
    IN  "{" \o Join([i \in 1..Len(ks) |->
                        Quoted(ks[i]) \o ":" \o
                            (IF ks[i] = "aps" THEN ApsText(n)
                             ELSE ValueText(n.top[ks[i]]))])
            \o "}"

\* The values the notification fields take in this model: every field has one
\* non-empty text; `title` also takes the titles of the external payload texts.
FieldText ==
    [k \in {"title", "subtitle", "body", "body-html", "sound", "media-url",
            "image-url", "video-url"} |->
        CASE k = "title" -> "Hi"
          [] k = "subtitle" -> "Sub"
          [] k = "body" -> "Text"
          [] k = "body-html" -> "<b>Text</b>"
          [] k = "sound" -> "default"
          [] k = "media-url" -> "http://h/m"
          [] k = "image-url" -> "http://h/i"
          [] k = "video-url" -> "http://h/v"]
KeySet(keys) == {keys[i] : i \in 1..Len(keys)}
\* the objects whose members are among the keys above, each with its text
AlertMaps ==
    {[k \in ks |-> Str(FieldText[k])] : ks \in SUBSET KeySet(AlertKeys)}
        \cup {[k \in {"title"} |-> Str("m" \o ToString(i))] : i \in 1..MaxEvents}
ApsMaps ==
    {[k \in ks |-> IF k = "alert" THEN Obj ELSE Str(FieldText[k])] :
        ks \in SUBSET KeySet(ApsKeys)}
TopMaps ==
    {[k \in ks |-> IF k = "aps" THEN Obj ELSE Str(FieldText[k])] :
        ks \in SUBSET KeySet(TopKeys)}
Notifications ==
    {Notification(t, IF "aps" \in DOMAIN t THEN a ELSE EmptyMap,
                  IF "aps" \in DOMAIN t /\ "alert" \in DOMAIN a THEN al ELSE EmptyMap) :
        t \in TopMaps, a \in ApsMaps, al \in AlertMaps}

\* JSON.parse on the texts of this model: the object a text encodes
ParseTable ==
    LET text == [n \in Notifications |-> StringifyNotification(n)]
    IN  [t \in {text[n] : n \in Notifications} |->
            CHOOSE n \in Notifications : text[n] = t]

\* JSON.parse(payload): defined on the decodable texts, throws on the rest
Decodable(text) == text \in DOMAIN ParseTable
JSONparse(text) == ParseTable[text]

\* JSON.stringify of { action: 'notification', payload }
JSONstringify(message) ==
    "{\"action\":\"" \o message.action \o "\",\"payload\":"
        \o StringifyNotification(message.payload) \o "}"

\* the frame a client must receive for the k-th write
Frame(k) == JSONstringify([action |-> "notification", payload |-> JSONparse(PayloadText(k))])

AuthFailedFrame == "{\"error\":\"Authentication failed\"}"
InvalidFormatFrame == "{\"error\":\"Invalid message format\"}"
SuccessFrame == "{\"action\":\"setDeviceToken\",\"success\":true}"

UnknownActionFrame == "{\"error\":\"Unknown action\"}"

\* Inbound transport messages, as the objects JSON.parse yields: a member the
\* text does not have is undefined; `data` is an object or undefined, and
\* person, device and tagId are the members of `data`
Inbound(action, user, pass, clientId, data, person, device) ==
    [action |-> action, username |-> user, password |-> pass,
     clientId |-> clientId, data |-> data, person |-> person, device |-> device,
     tagId |-> Undefined]
SetDeviceToken(user, pass, clientId, person, device) ==
    Inbound("setDeviceToken", user, pass, clientId, Obj, person, device)
\* the registrations clients send in this model: (clientId, person, device)
RegInputs == {<<Str("c1"), "alice", "phone">>, <<Str("c2"), "alice", "watch">>}
Registrations ==
    {SetDeviceToken(ConfigUsername, ConfigPassword, r[1], Str(r[2]), Str(r[3])) :
        r \in RegInputs}
\* messages whose username or password is not the configured one
Unauthenticated ==
    {SetDeviceToken(ConfigUsername, "wrong", Str("c1"), Str("alice"), Str("phone")),
     SetDeviceToken("admin", ConfigPassword, Str("c2"), Str("alice"), Str("watch")),
     Inbound("bogus", ConfigUsername, "wrong", Str("c1"), Undefined, Undefined, Undefined)}
\* authenticated setDeviceToken messages that lack clientId, data.person,
\* data.device, or data
Incomplete ==
    {SetDeviceToken(ConfigUsername, ConfigPassword, Undefined, Str("alice"), Str("phone")),
     SetDeviceToken(ConfigUsername, ConfigPassword, Str("c1"), Undefined, Str("phone")),
     SetDeviceToken(ConfigUsername, ConfigPassword, Str("c1"), Str("alice"), Undefined),
     Inbound("setDeviceToken", ConfigUsername, ConfigPassword, Str("c1"), Undefined,
             Undefined, Undefined)}
\* an authenticated message whose action no case of the switch names
UnknownAction ==
    Inbound("bogus", ConfigUsername, ConfigPassword, Str("c1"), Undefined, Undefined,
            Undefined)
\* tags: `door` and `send` have been created (createTag), `ghost` has not
TagObjects == {"door", "send"}
TagIds == TagObjects \cup {"ghost"}
TagPath(tagId) == NS \o <<"tags", tagId>>
\* the tagsTrigger messages of a client
TagsTrigger(tagId) ==
    [Inbound("tagsTrigger", ConfigUsername, ConfigPassword, Undefined, Obj, Undefined,
             Undefined) EXCEPT !.tagId = Str(tagId)]
InboundObjects ==
    Registrations \cup Unauthenticated \cup Incomplete \cup {UnknownAction}
        \cup {TagsTrigger(tagId) : tagId \in TagIds}

\* the text of a message: the members that are not undefined
Member(k, v) == Quoted(k) \o ":" \o ValueText(v)
MemberTexts(members) ==
    LET ms == SelectSeq(members, LAMBDA kv : kv[2] # Undefined)
    IN  [i \in 1..Len(ms) |-> Member(ms[i][1], ms[i][2])]
WsText(m) ==
    "{" \o Join(MemberTexts(<< <<"action", Str(m.action)>>, <<"username", Str(m.username)>>,
                               <<"password", Str(m.password)>>,
                               <<"clientId", m.clientId>> >>)
                \o (IF m.data = Obj
                    THEN <<"\"data\":{"
                             \o Join(MemberTexts(<< <<"person", m.person>>,
                                                    <<"device", m.device>>,
                                                    <<"tagId", m.tagId>> >>))
                             \o "}">>
                    ELSE <<>>))
        \o "}"
MalformedText == "{\"action\":"
\* what a session sends: registrations, wrong credentials, an unknown action,
\* an undecodable text
InboundTexts ==
    {WsText(m) : m \in Registrations \cup Unauthenticated \cup {UnknownAction}}
        \cup {MalformedText}
\* registrations, complete or not
IncompleteTexts == {WsText(m) : m \in Registrations \cup Incomplete}
TagTexts == {WsText(TagsTrigger(tagId)) : tagId \in TagIds}
\* the well-formed, authenticated registrations
RegTexts == {WsText(m) : m \in Registrations}
\* JSON.parse(message), as a table from the decodable texts to their objects
WsTable ==
    LET text == [m \in InboundObjects |-> WsText(m)]
    IN  [t \in {text[m] : m \in InboundObjects} |->
            CHOOSE m \in InboundObjects : text[m] = t]
WsDecodable(text) == text \in DOMAIN WsTable
WsParse(text) == WsTable[text]

\* The state store outlives the adapter: at start it is empty, or holds what an
\* earlier run recorded for a device that registered then.
RecordedStore ==
    Put(Put(EmptyMap, WsDeviceIdPath("alice", "phone"), Str("c1")),
        ConnectionPath(<<"alice", "phone">>), Bool(TRUE))
InitialStores == {EmptyMap, RecordedStore}

\* ------------------------------------------------------------------------
\* State
\* ------------------------------------------------------------------------
VARIABLES
    readyState,      \* socket -> "NONE" (not yet accepted) | "OPEN" | "CLOSED"
    socketClientId,  \* socket.clientId
    clients,         \* this.clients: client id -> socket
    messageQueue,    \* this.messageQueue: client id -> sequence of messages
    states,          \* the state store: id -> value
    signals,         \* stateChange signals published and not yet handled
    apnHandlers,     \* running handleAPNMessage calls
    regHandlers,     \* running setDeviceToken and tagsTrigger branches of
                     \* handleWebSocketMessage, and the timers they have set
    genHandlers,     \* running `.send` branches of onStateChange (generatePayload)
    runs,            \* history: external write -> generatePayload runs it started
    replies,         \* socket -> reply frames written to it
    delivered,       \* history: client id -> notification frames written for it
    requeued,        \* history: client ids whose drain put a message back
    nwrites,         \* external payload writes so far
    nmessages        \* inbound transport messages so far

vars == <<readyState, socketClientId, clients, messageQueue, states, signals,
          apnHandlers, regHandlers, genHandlers, runs, replies, delivered, requeued,
          nwrites, nmessages>>

Init ==
    /\ readyState = [s \in Sockets |-> "NONE"]
    /\ socketClientId = [s \in Sockets |-> Undefined]
    /\ clients = EmptyMap
    /\ messageQueue = EmptyMap
    /\ states \in InitialStores
    /\ signals = <<>>
    /\ apnHandlers = {}
    /\ regHandlers = {}
    /\ genHandlers = {}
    /\ runs = EmptyMap
    /\ replies = [s \in Sockets |-> <<>>]
    /\ delivered = EmptyMap
    /\ requeued = {}
    /\ nwrites = 0
    /\ nmessages = 0

\* ------------------------------------------------------------------------
\* The state store
\* ------------------------------------------------------------------------
\* getStateAsync(id): the state object, or null when the id has no value
HasState(id) == id \in DOMAIN states
StateVal(id) == states[id]

\* ioBroker pattern match, one `*` per segment
Matches(pattern, id) ==
    /\ Len(pattern) = Len(id)
    /\ \A i \in 1..Len(id) : pattern[i] = "*" \/ pattern[i] = id[i]

\* getStatesAsync(pattern): Object.values of the result, in key order
getStatesAsync(pattern) ==
    LET ids == SelectSeq(KeyOrder, LAMBDA id : HasState(id) /\ Matches(pattern, id))
    IN  [i \in 1..Len(ids) |-> StateVal(ids[i])]

\* id.endsWith('.' + name)
EndsWith(id, name) == Len(id) >= 2 /\ id[Len(id)] = name

\* const [namespace, person, device, ...rest] = id.split('.').slice(2)
Destructure(id) ==
    LET parts == SubSeq(id, 3, Len(id))
    IN  [person |-> IF Len(parts) >= 2 THEN Str(parts[2]) ELSE Undefined,
         device |-> IF Len(parts) >= 3 THEN Str(parts[3]) ELSE Undefined]

\* ------------------------------------------------------------------------
\* Registry and queue operations (synchronous)
\* ------------------------------------------------------------------------
\* The mutable part they work on: w = [messageQueue, delivered, requeued]
World == [messageQueue |-> messageQueue, delivered |-> delivered, requeued |-> requeued]

Log(d, clientId) == IF clientId \in DOMAIN d THEN d[clientId] ELSE <<>>
Pending(mq, clientId) == IF clientId \in DOMAIN mq THEN mq[clientId] ELSE <<>>

\* socket.send(JSON.stringify(message)) of a notification for clientId
Written(d, clientId, socket, message, via) ==
    Put(d, clientId,
        Append(Log(d, clientId),
               [socket |-> socket, frame |-> JSONstringify(message), via |-> via]))

\* variant: this.messageQueue = new Map() without the guard of line 1193
queueMessageForClient_NewMap(mq, clientId, message) ==
    Put(EmptyMap, clientId, Append(Pending(mq, clientId), message))

queueMessageForClient(mq, clientId, message) ==
    LET created == IF clientId \in DOMAIN mq THEN mq ELSE Put(mq, clientId, <<>>)
        clientQueue == Append(created[clientId], message)
    IN  Put(created, clientId, clientQueue)

isOpen(clientId) ==
    clientId \in DOMAIN clients /\ readyState[clients[clientId]] = "OPEN"

\* variant: the registry entry alone decides, readyState is not read
sendMessageToClient_IgnoresReadyState(w, clientId, message) ==
    IF clientId \in DOMAIN clients
    THEN [w EXCEPT !.delivered =
              Written(w.delivered, clientId, clients[clientId], message, "direct")]
    ELSE [w EXCEPT !.messageQueue =
              queueMessageForClient(w.messageQueue, clientId, message)]

\* variant: without an open socket for the id, any open socket is written to
sendMessageToClient_AnyOpen(w, clientId, message) ==
    IF isOpen(clientId)
    THEN [w EXCEPT !.delivered =
              Written(w.delivered, clientId, clients[clientId], message, "direct")]
    ELSE IF \E s \in Sockets : readyState[s] = "OPEN"
    THEN [w EXCEPT !.delivered =
              Written(w.delivered, clientId,
                      CHOOSE s \in Sockets : readyState[s] = "OPEN", message, "direct")]
    ELSE [w EXCEPT !.messageQueue =
              queueMessageForClient(w.messageQueue, clientId, message)]

sendMessageToClient(w, clientId, message) ==
    IF isOpen(clientId)
    THEN [w EXCEPT !.delivered =
              Written(w.delivered, clientId, clients[clientId], message, "direct")]
    ELSE [w EXCEPT !.messageQueue =
              queueMessageForClient(w.messageQueue, clientId, message)]

\* variant: queue.pop() instead of queue.shift()
RECURSIVE DrainLoop_Pop(_, _, _, _)
DrainLoop_Pop(queue, d, clientId, socket) ==
    IF Len(queue) = 0
    THEN [queue |-> queue, delivered |-> d, putBack |-> FALSE]
    ELSE LET message == queue[Len(queue)]
             popped == SubSeq(queue, 1, Len(queue) - 1)
         IN  IF readyState[socket] = "OPEN"
             THEN DrainLoop_Pop(popped, Written(d, clientId, socket, message, "replay"),
                                clientId, socket)
             ELSE [queue |-> popped \o <<message>>, delivered |-> d, putBack |-> TRUE]

\* variant: queue.push(message) instead of queue.unshift(message)
RECURSIVE DrainLoop_Push(_, _, _, _)
DrainLoop_Push(queue, d, clientId, socket) ==
    IF Len(queue) = 0
    THEN [queue |-> queue, delivered |-> d, putBack |-> FALSE]
    ELSE LET message == Head(queue)
             shifted == Tail(queue)
         IN  IF readyState[socket] = "OPEN"
             THEN DrainLoop_Push(shifted, Written(d, clientId, socket, message, "replay"),
                                 clientId, socket)
             ELSE [queue |-> shifted \o <<message>>, delivered |-> d, putBack |-> TRUE]

\* the while loop of sendQueuedMessages: [queue, delivered, putBack]
RECURSIVE DrainLoop(_, _, _, _)
DrainLoop(queue, d, clientId, socket) ==
    IF Len(queue) = 0
    THEN [queue |-> queue, delivered |-> d, putBack |-> FALSE]
    ELSE LET message == Head(queue)          \* queue.shift()
             shifted == Tail(queue)
         IN  IF readyState[socket] = "OPEN"
             THEN DrainLoop(shifted, Written(d, clientId, socket, message, "replay"),
                            clientId, socket)
             ELSE [queue |-> <<message>> \o shifted,     \* queue.unshift(message)
                   delivered |-> d, putBack |-> TRUE]

\* variant: a client id without a queue gets an empty one
sendQueuedMessages_CreatesEntry(w, socket) ==
    LET clientId == socketClientId[socket]
    IN  IF ~Truthy(clientId)
        THEN w
        ELSE IF clientId \notin DOMAIN w.messageQueue
        THEN [w EXCEPT !.messageQueue = Put(w.messageQueue, clientId, <<>>)]
        ELSE LET r == DrainLoop(w.messageQueue[clientId], w.delivered, clientId, socket)
             IN  [messageQueue |->
                      IF Len(r.queue) = 0
                      THEN Del(w.messageQueue, clientId)
                      ELSE Put(w.messageQueue, clientId, r.queue),
                  delivered |-> r.delivered,
                  requeued |-> IF r.putBack THEN w.requeued \cup {clientId}
                               ELSE w.requeued]

\* variant: the emptied queue is left in the map (no messageQueue.delete)
sendQueuedMessages_KeepsEmpty(w, socket) ==
    LET clientId == socketClientId[socket]
    IN  IF ~Truthy(clientId) \/ clientId \notin DOMAIN w.messageQueue
        THEN w
        ELSE LET r == DrainLoop(w.messageQueue[clientId], w.delivered, clientId, socket)
             IN  [messageQueue |-> Put(w.messageQueue, clientId, r.queue),
                  delivered |-> r.delivered,
                  requeued |-> IF r.putBack THEN w.requeued \cup {clientId}
                               ELSE w.requeued]

sendQueuedMessages(w, socket) ==
    LET clientId == socketClientId[socket]
    IN  IF ~Truthy(clientId) \/ clientId \notin DOMAIN w.messageQueue
        THEN w
        ELSE LET r == DrainLoop(w.messageQueue[clientId], w.delivered, clientId, socket)
             IN  [messageQueue |->
                      IF Len(r.queue) = 0
                      THEN Del(w.messageQueue, clientId)
                      ELSE Put(w.messageQueue, clientId, r.queue),
                  delivered |-> r.delivered,
                  requeued |-> IF r.putBack THEN w.requeued \cup {clientId}
                               ELSE w.requeued]

\* ------------------------------------------------------------------------
\* Transport listener (initializeWebSocket)
\* ------------------------------------------------------------------------
\* wsServer.on('connection'): a new socket, open, with no clientId yet
Connection(s) ==
    /\ readyState[s] = "NONE"
    /\ \A i \in 1..Len(SocketOrder) :
         SocketOrder[i] = s => \A j \in 1..(i - 1) : readyState[SocketOrder[j]] # "NONE"
    /\ readyState' = [readyState EXCEPT ![s] = "OPEN"]
    /\ UNCHANGED <<socketClientId, clients, messageQueue, states, signals, apnHandlers,
                   regHandlers, replies, delivered, requeued, nwrites,
                   nmessages, genHandlers, runs>>

\* `client.socket` of a registry value: the registry stores the socket itself
\* (clients.set(clientId, socket)), and a socket has no `socket` property
SocketProperty(client) == "undefined"

\* the ids the close handler's forEach deletes
ClosedIds(s) == {id \in DOMAIN clients : SocketProperty(clients[id]) = s}

\* socket.on('close'): the transport is closed, then the handler runs
Close(s) ==
    /\ readyState[s] = "OPEN"
    /\ readyState' = [readyState EXCEPT ![s] = "CLOSED"]
    /\ clients' = [id \in (DOMAIN clients) \ ClosedIds(s) |-> clients[id]]
    \* setConnectionState(id, false) for every deleted id
    /\ states' = [id \in (DOMAIN states) \cup
                         {ConnectionPath(<<Interpolate(c)>>) : c \in ClosedIds(s)} |->
                    IF \E c \in ClosedIds(s) : id = ConnectionPath(<<Interpolate(c)>>)
                    THEN Bool(FALSE) ELSE states[id]]
    /\ UNCHANGED <<socketClientId, messageQueue, signals, apnHandlers, regHandlers,
                   replies, delivered, requeued, nwrites, nmessages, genHandlers, runs>>

\* variant: the password is not compared
authenticate_UsernameOnly(username, password) == username = ConfigUsername

authenticate(username, password) ==
    username = ConfigUsername /\ password = ConfigPassword

\* variant: the frame is written twice
Reply_Twice(r, s, frame) ==
    IF readyState[s] = "OPEN" THEN [r EXCEPT ![s] = r[s] \o <<frame, frame>>] ELSE r

\* socket.send of a reply frame: written when the socket is open; on a socket
\* that is not open the ws library either drops the frame or throws, and in
\* both cases nothing is written
Reply(r, s, frame) ==
    IF readyState[s] = "OPEN" THEN [r EXCEPT ![s] = Append(r[s], frame)] ELSE r

\* variant: an id that is in the registry keeps its socket
clientsSet_KeepsFirst(map, clientId, socket) ==
    IF clientId \in DOMAIN map THEN map ELSE Put(map, clientId, socket)

\* this.clients.set(clientId, socket), line 1100
clientsSet(map, clientId, socket) == Put(map, clientId, socket)

\* handleWebSocketMessage, up to its first await (lines 1083-1102)
WebSocketMessage(s, text) ==
    /\ readyState[s] = "OPEN"
    /\ nwrites + nmessages < MaxEvents
    /\ nmessages' = nmessages + 1
    /\ IF ~WsDecodable(text)
       THEN \* JSON.parse throws: catch, line 1168
            /\ replies' = Reply(replies, s, InvalidFormatFrame)
            /\ UNCHANGED <<socketClientId, clients, regHandlers>>
       ELSE LET m == WsParse(text) IN
            IF ~authenticate(m.username, m.password)
            THEN /\ replies' = Reply(replies, s, AuthFailedFrame)
                 /\ UNCHANGED <<socketClientId, clients, regHandlers>>
            ELSE IF m.action = "tagsTrigger"
            THEN \* handleTagsTrigger(socket, data), up to its first await
                 \* (lines 1157 and 1001-1007)
                 /\ regHandlers' = regHandlers \cup
                        {[socket |-> s, tagId |-> Interpolate(m.tagId), pc |-> "tag",
                          n |-> nmessages + 1]}
                 /\ UNCHANGED <<socketClientId, clients, replies>>
            ELSE IF m.action # "setDeviceToken"
            THEN \* default, lines 1161-1163
                 /\ replies' = Reply(replies, s, UnknownActionFrame)
                 /\ UNCHANGED <<socketClientId, clients, regHandlers>>
            ELSE IF m.data = Undefined
            THEN \* data.deviceToken throws a TypeError (line 1095): catch, line 1168
                 /\ replies' = Reply(replies, s, InvalidFormatFrame)
                 /\ UNCHANGED <<socketClientId, clients, regHandlers>>
            ELSE \* case 'setDeviceToken'; person and device are used in template
                 \* literals only
                 /\ socketClientId' = [socketClientId EXCEPT ![s] = m.clientId]
                 /\ clients' = clientsSet(clients, m.clientId, s)
                 /\ regHandlers' = regHandlers \cup
                        {[socket |-> s, clientId |-> m.clientId,
                          person |-> Interpolate(m.person),
                          device |-> Interpolate(m.device),
                          pc |-> "wsid", n |-> nmessages + 1]}
                 /\ UNCHANGED replies
    /\ UNCHANGED <<readyState, messageQueue, states, signals, apnHandlers, delivered, requeued, nwrites, genHandlers, runs>>

\* a rejected store call inside the try of handleWebSocketMessage: catch, 1166-1169
RegFailed(h) ==
    /\ regHandlers' = regHandlers \ {h}
    /\ replies' = Reply(replies, h.socket, InvalidFormatFrame)
    /\ UNCHANGED <<readyState, socketClientId, clients, messageQueue, states, signals,
                   apnHandlers, delivered, requeued, nwrites, nmessages, genHandlers, runs>>

\* the two setObjectNotExistsAsync calls and setStateAsync(...ws_device_id, clientId,
\* true), lines 1102-1127: objects are not part of the model, so the three awaits
\* have one effect on it
RegDeviceId(h, ok) ==
    /\ h.pc = "wsid"
    /\ IF ok
       THEN /\ states' = Put(states, WsDeviceIdPath(h.person, h.device), h.clientId)
            /\ regHandlers' = (regHandlers \ {h}) \cup {[h EXCEPT !.pc = "conn"]}
            /\ UNCHANGED <<readyState, socketClientId, clients, messageQueue, signals,
                           apnHandlers, replies, delivered, requeued,
                           nwrites, nmessages, genHandlers, runs>>
       ELSE RegFailed(h)

\* variant: the indicator is not written
RegConnection_Skips(h, ok) ==
    /\ h.pc = "conn"
    /\ IF ok
       THEN /\ regHandlers' = (regHandlers \ {h}) \cup {[h EXCEPT !.pc = "reply"]}
            /\ UNCHANGED <<readyState, socketClientId, clients, messageQueue, states,
                           signals, apnHandlers, replies, delivered, requeued,
                           nwrites, nmessages, genHandlers, runs>>
       ELSE RegFailed(h)

\* setConnectionState(`${person}.${device}`, true), lines 1128 and 1383-1397
RegConnection(h, ok) ==
    /\ h.pc = "conn"
    /\ IF ok
       THEN /\ states' = Put(states, ConnectionPath(<<h.person, h.device>>), Bool(TRUE))
            /\ regHandlers' = (regHandlers \ {h}) \cup {[h EXCEPT !.pc = "reply"]}
            /\ UNCHANGED <<readyState, socketClientId, clients, messageQueue, signals,
                           apnHandlers, replies, delivered, requeued,
                           nwrites, nmessages, genHandlers, runs>>
       ELSE RegFailed(h)

\* socket.send(success) and sendQueuedMessages(socket), lines 1129-1130.  On a
\* socket that is not open, send either throws (the handler ends in its catch,
\* without the drain) or drops the frame (the drain runs).
RegReplyAndDrain(h) ==
    /\ h.pc = "reply"
    /\ regHandlers' = regHandlers \ {h}
    /\ replies' = Reply(replies, h.socket, SuccessFrame)
    /\ \E sendThrows \in IF readyState[h.socket] = "OPEN" THEN {FALSE} ELSE {FALSE, TRUE} :
         LET w == IF sendThrows THEN World ELSE sendQueuedMessages(World, h.socket)
         IN  /\ messageQueue' = w.messageQueue
             /\ delivered' = w.delivered
             /\ requeued' = w.requeued
    /\ UNCHANGED <<readyState, socketClientId, clients, states, signals, apnHandlers, nwrites, nmessages, genHandlers, runs>>

\* ------------------------------------------------------------------------
\* Event trigger (onStateChange)
\* ------------------------------------------------------------------------
\* variant: `.send` is not tested for its value
Branch_AnySend(id, val) ==
    IF EndsWith(id, "send") THEN "send"
    ELSE IF EndsWith(id, "payload") /\ val # Str("") THEN "payload"
    ELSE "none"

\* variant: `.send` is tested for truthiness, `if (state.val)`
Branch_Truthy(id, val) ==
    IF EndsWith(id, "send") /\ Truthy(val) THEN "send"
    ELSE IF EndsWith(id, "payload") /\ val # Str("") THEN "payload"
    ELSE "none"

\* the branch onStateChange takes for a signal (lines 756 and 759)
Branch(id, val) ==
    IF EndsWith(id, "send") /\ val = Bool(TRUE) THEN "send"
    ELSE IF EndsWith(id, "payload") /\ val # Str("") THEN "payload"
    ELSE "none"

\* The store publishes a change to the adapter.  A signal for which
\* onStateChange takes no branch changes nothing and is not kept.
Publish(sigs, sig) == IF Branch(sig.id, sig.val) = "none" THEN sigs ELSE Append(sigs, sig)

\* An external actor writes the next payload text to a `payload` field; the
\* store publishes the change.  (Signals of ids that end neither in `.send`
\* nor in `.payload` fall through onStateChange and are not kept.)
PayloadWrite(id) ==
    /\ nwrites + nmessages < MaxEvents
    /\ nwrites' = nwrites + 1
    /\ states' = Put(states, id, Str(PayloadText(nwrites + 1)))
    /\ signals' = Publish(signals, [id |-> id, val |-> Str(PayloadText(nwrites + 1)),
                                    w |-> nwrites + 1])
    /\ UNCHANGED <<readyState, socketClientId, clients, messageQueue, apnHandlers,
                   regHandlers, replies, delivered, requeued, nmessages, genHandlers, runs>>

\* An external actor writes a value to a state; the store publishes the change.
ExternalWrite(id, val) ==
    /\ nwrites + nmessages < MaxEvents
    /\ nwrites' = nwrites + 1
    /\ states' = Put(states, id, val)
    /\ signals' = Publish(signals, [id |-> id, val |-> val, w |-> nwrites + 1])
    /\ UNCHANGED <<readyState, socketClientId, clients, messageQueue, apnHandlers,
                   regHandlers, genHandlers, runs, replies, delivered, requeued,
                   nmessages>>

\* how often generatePayload has been started for external write w
Runs(r, w) == IF w \in DOMAIN r THEN r[w] ELSE 0

\* onStateChange(id, state), lines 753-765, up to the first await of the
\* handler it calls: generatePayload (line 757) or handleAPNMessage (line 760)
onStateChange ==
    /\ signals # <<>>
    /\ signals' = Tail(signals)
    /\ LET sig == Head(signals) IN
       CASE Branch(sig.id, sig.val) = "send" ->
                /\ genHandlers' = genHandlers \cup
                       {[id |-> sig.id, val |-> sig.val, pc |-> "read", payload |-> "",
                         w |-> sig.w]}
                /\ runs' = Put(runs, sig.w, Runs(runs, sig.w) + 1)
                /\ UNCHANGED apnHandlers
         [] Branch(sig.id, sig.val) = "payload" ->
                /\ apnHandlers' = apnHandlers \cup
                       {[id |-> sig.id, val |-> sig.val, pc |-> "resolve",
                         clientIds |-> <<>>, w |-> sig.w]}
                /\ UNCHANGED <<genHandlers, runs>>
         [] OTHER -> UNCHANGED <<apnHandlers, genHandlers, runs>>
    /\ UNCHANGED <<readyState, socketClientId, clients, messageQueue, states,
                   regHandlers, replies, delivered, requeued, nwrites,
                   nmessages>>

\* ------------------------------------------------------------------------
\* Tag trigger (handleTagsTrigger)
\* ------------------------------------------------------------------------
TagSuccessFrame == "{\"action\":\"tagsTrigger\",\"success\":true}"
TagMissingFrame == "{\"action\":\"tagsTrigger\",\"error\":\"missing tag\"}"

\* getForeignObjectAsync(tagPath) has answered (lines 1007-1008).  For a tag
\* that exists, setStateAsync(tagPath, true, true) is done, the timer is set
\* and the success reply is sent (lines 1010-1015); for one that does not, the
\* error reply is sent (line 1018).
TagLookup(h) ==
    /\ h.pc = "tag"
    /\ IF h.tagId \in TagObjects
       THEN /\ states' = Put(states, TagPath(h.tagId), Bool(TRUE))
            /\ signals' = Publish(signals, [id |-> TagPath(h.tagId),
                                                  val |-> Bool(TRUE), w |-> 0])
            /\ regHandlers' = (regHandlers \ {h}) \cup {[h EXCEPT !.pc = "timer"]}
            /\ replies' = Reply(replies, h.socket, TagSuccessFrame)
       ELSE /\ regHandlers' = regHandlers \ {h}
            /\ replies' = Reply(replies, h.socket, TagMissingFrame)
            /\ UNCHANGED <<states, signals>>
    /\ UNCHANGED <<readyState, socketClientId, clients, messageQueue, apnHandlers,
                   genHandlers, runs, delivered, requeued, nwrites, nmessages>>

\* the callback of setTimeout(..., 1000): setStateAsync(tagPath, false, true),
\* lines 1011-1014
TagTimer(h) ==
    /\ h.pc = "timer"
    /\ regHandlers' = regHandlers \ {h}
    /\ states' = Put(states, TagPath(h.tagId), Bool(FALSE))
    /\ signals' = Publish(signals, [id |-> TagPath(h.tagId), val |-> Bool(FALSE),
                                          w |-> 0])
    /\ UNCHANGED <<readyState, socketClientId, clients, messageQueue, apnHandlers,
                   genHandlers, runs, replies, delivered, requeued, nwrites, nmessages>>

\* ------------------------------------------------------------------------
\* Payload builder (generatePayload)
\* ------------------------------------------------------------------------
\* basePath of generatePayload, lines 1238-1247
GenBasePath(id) ==
    LET d == Destructure(id) IN
    IF d.person = Str("send")
    THEN NS \o <<"messages">>
    ELSE IF d.device = Str("messages")
    THEN NS \o <<"person", Interpolate(d.person), "messages">>
    ELSE NS \o <<"person", Interpolate(d.person), Interpolate(d.device), "messages">>

\* const x = xState ? xState.val : '' (lines 1250-1266)
FieldVal(basePath, name) ==
    IF HasState(basePath \o <<name>>) THEN StateVal(basePath \o <<name>>) ELSE Str("")

\* variant: the value as read, empty or not
OrUndefined_KeepsEmpty(v) == v

\* x || undefined
OrUndefined(v) == IF Truthy(v) THEN v ELSE Undefined

\* Object.keys(o).forEach(key => o[key] === undefined && delete o[key])
DeleteUndefined(map) == [k \in {x \in DOMAIN map : map[x] # Undefined} |-> map[k]]

\* the object literal of lines 1268-1281
NotificationLiteral(basePath) ==
    Notification(
        [k \in KeySet(TopKeys) |->
            IF k = "aps" THEN Obj ELSE OrUndefined(FieldVal(basePath, k))],
        [k \in KeySet(ApsKeys) |->
            IF k = "alert" THEN Obj ELSE OrUndefined(FieldVal(basePath, k))],
        [k \in KeySet(AlertKeys) |-> OrUndefined(FieldVal(basePath, k))])

\* lines 1284-1286: undefined properties are deleted from the object and from
\* `aps`; `alert` is deleted when it has no own property
RemoveUndefined(n) ==
    LET top == DeleteUndefined(n.top)
        aps == DeleteUndefined(n.aps)
    IN  IF Cardinality(DOMAIN n.alert) = 0
        THEN Notification(top, Del(aps, "alert"), EmptyMap)
        ELSE Notification(top, aps, n.alert)

\* the text generatePayload writes (line 1288)
BuildPayload(basePath) == StringifyNotification(RemoveUndefined(NotificationLiteral(basePath)))

\* variant: a rejected read is not caught and ends the branch
GenRead_Rethrows(h, ok) ==
    /\ h.pc = "read"
    /\ genHandlers' = (genHandlers \ {h}) \cup
           {IF ok THEN [h EXCEPT !.pc = "write", !.payload = BuildPayload(GenBasePath(h.id))]
            ELSE [h EXCEPT !.pc = "rejected"]}
    /\ UNCHANGED <<readyState, socketClientId, clients, messageQueue, states, signals,
                   apnHandlers, regHandlers, runs, replies, delivered, requeued,
                   nwrites, nmessages>>

\* the getStateAsync reads of lines 1250-1257 and the build of lines 1259-1288.
\* No action of the model writes a notification field, so the eight reads see
\* one store and are one step.  A rejected read ends in the catch (line 1291).
GenRead(h, ok) ==
    /\ h.pc = "read"
    /\ genHandlers' = (genHandlers \ {h}) \cup
           {IF ok THEN [h EXCEPT !.pc = "write", !.payload = BuildPayload(GenBasePath(h.id))]
            ELSE [h EXCEPT !.pc = "reset"]}
    /\ UNCHANGED <<readyState, socketClientId, clients, messageQueue, states, signals,
                   apnHandlers, regHandlers, runs, replies, delivered, requeued,
                   nwrites, nmessages>>

\* setStateAsync(`${basePath}.payload`, payload, true), line 1289
GenWrite(h) ==
    /\ h.pc = "write"
    /\ genHandlers' = (genHandlers \ {h}) \cup {[h EXCEPT !.pc = "reset"]}
    /\ states' = Put(states, GenBasePath(h.id) \o <<"payload">>, Str(h.payload))
    /\ signals' = Publish(signals, [id |-> GenBasePath(h.id) \o <<"payload">>,
                                    val |-> Str(h.payload), w |-> h.w])
    /\ UNCHANGED <<readyState, socketClientId, clients, messageQueue, apnHandlers,
                   regHandlers, runs, replies, delivered, requeued, nwrites,
                   nmessages>>

\* variant: the branch ends without resetting the flag
SendReset_KeepsFlag(h) ==
    /\ h.pc = "reset"
    /\ genHandlers' = genHandlers \ {h}
    /\ UNCHANGED <<readyState, socketClientId, clients, messageQueue, states, signals,
                   apnHandlers, regHandlers, runs, replies, delivered, requeued,
                   nwrites, nmessages>>

\* setStateAsync(id, false, true), line 758
SendReset(h) ==
    /\ h.pc = "reset"
    /\ genHandlers' = genHandlers \ {h}
    /\ states' = Put(states, h.id, Bool(FALSE))
    /\ signals' = Publish(signals, [id |-> h.id, val |-> Bool(FALSE), w |-> 0])
    /\ UNCHANGED <<readyState, socketClientId, clients, messageQueue, apnHandlers,
                   regHandlers, runs, replies, delivered, requeued, nwrites,
                   nmessages>>

\* ------------------------------------------------------------------------
\* Delivery dispatcher (handleAPNMessage)
\* ------------------------------------------------------------------------
\* basePath of handleAPNMessage, lines 1300-1309
ApnBasePath(id) ==
    LET d == Destructure(id) IN
    IF d.device = Str("messages")
    THEN NS \o <<"person", Interpolate(d.person), "messages">>
    ELSE IF d.person = Str("payload")
    THEN NS \o <<"messages">>
    ELSE NS \o <<"person", Interpolate(d.person), Interpolate(d.device), "messages">>

\* variant: .map(state => state.val) without the filter
FilterTruthy_KeepsAll(vals) == vals

\* .map(state => state.val).filter(val => val)
FilterTruthy(vals) == SelectSeq(vals, Truthy)

\* variant: the global scope reads the devices of one person only
ApnClientIds_OnePerson(id) ==
    LET d == Destructure(id) IN
    IF d.device = Str("messages")
    THEN FilterTruthy(getStatesAsync(
             NS \o <<"person", Interpolate(d.person), "*", "ws_device_id">>))
    ELSE IF d.person = Str("payload")
    THEN FilterTruthy(getStatesAsync(NS \o <<"person", "alice", "*", "ws_device_id">>))
    ELSE LET path == WsDeviceIdPath(Interpolate(d.person), Interpolate(d.device))
         IN  IF HasState(path) THEN <<StateVal(path)>> ELSE <<>>

\* clientIds of handleAPNMessage, lines 1300-1312
ApnClientIds(id) ==
    LET d == Destructure(id) IN
    IF d.device = Str("messages")
    THEN FilterTruthy(getStatesAsync(
             NS \o <<"person", Interpolate(d.person), "*", "ws_device_id">>))
    ELSE IF d.person = Str("payload")
    THEN FilterTruthy(getStatesAsync(NS \o <<"person", "*", "*", "ws_device_id">>))
    ELSE LET path == WsDeviceIdPath(Interpolate(d.person), Interpolate(d.device))
         IN  IF HasState(path) THEN <<StateVal(path)>> ELSE <<>>

\* the recipient resolution of handleAPNMessage, lines 1297-1312
ApnResolve(h) ==
    /\ h.pc = "resolve"
    /\ apnHandlers' = (apnHandlers \ {h}) \cup
           {[h EXCEPT !.pc = "read", !.clientIds = ApnClientIds(h.id)]}
    /\ UNCHANGED <<readyState, socketClientId, clients, messageQueue, states, signals,
                   regHandlers, replies, delivered, requeued, nwrites,
                   nmessages, genHandlers, runs>>

\* for (const clientId of clientIds) { if (clientId) sendMessageToClient(...) }
RECURSIVE SendLoop(_, _, _)
SendLoop(w, clientIds, message) ==
    IF clientIds = <<>>
    THEN w
    ELSE SendLoop(IF Truthy(Head(clientIds))
                  THEN sendMessageToClient(w, Head(clientIds), message)
                  ELSE w,
                  Tail(clientIds), message)

\* variant: the clearing write is in a finally block
ApnDispatch_ClearsAlways(h) ==
    /\ h.pc = "read"
    /\ LET path == ApnBasePath(h.id) \o <<"payload">>
           payload == IF HasState(path) THEN StateVal(path) ELSE Null
       IN  IF Truthy(payload) /\ Decodable(payload[2])
           THEN LET message == [action |-> "notification",
                                payload |-> JSONparse(payload[2])]
                    w == SendLoop(World, h.clientIds, message)
                IN  /\ messageQueue' = w.messageQueue
                    /\ delivered' = w.delivered
                    /\ requeued' = w.requeued
                    /\ apnHandlers' = (apnHandlers \ {h}) \cup {[h EXCEPT !.pc = "clear"]}
           ELSE /\ apnHandlers' = (apnHandlers \ {h}) \cup {[h EXCEPT !.pc = "clear"]}
                /\ UNCHANGED <<messageQueue, delivered, requeued>>
    /\ UNCHANGED <<readyState, socketClientId, clients, states, signals, regHandlers,
                   replies, nwrites, nmessages, genHandlers, runs>>

\* lines 1315-1332: read the payload field, send or enqueue for every resolved
\* client id, then ask the store to clear the field
ApnDispatch(h) ==
    /\ h.pc = "read"
    /\ LET path == ApnBasePath(h.id) \o <<"payload">>
           payload == IF HasState(path) THEN StateVal(path) ELSE Null
       IN  IF Truthy(payload) /\ Decodable(payload[2])
           THEN LET message == [action |-> "notification",
                                payload |-> JSONparse(payload[2])]
                    w == SendLoop(World, h.clientIds, message)
                IN  /\ messageQueue' = w.messageQueue
                    /\ delivered' = w.delivered
                    /\ requeued' = w.requeued
                    /\ apnHandlers' = (apnHandlers \ {h}) \cup {[h EXCEPT !.pc = "clear"]}
           ELSE \* missing payload (line 1331) or JSON.parse throws (line 1334)
                /\ apnHandlers' = apnHandlers \ {h}
                /\ UNCHANGED <<messageQueue, delivered, requeued>>
    /\ UNCHANGED <<readyState, socketClientId, clients, states, signals, regHandlers,
                   replies, nwrites, nmessages, genHandlers, runs>>

\* variant: the handler ends without the clearing write
ApnClear_KeepsPayload(h) ==
    /\ h.pc = "clear"
    /\ apnHandlers' = apnHandlers \ {h}
    /\ UNCHANGED <<readyState, socketClientId, clients, messageQueue, states, signals,
                   regHandlers, genHandlers, runs, replies, delivered, requeued,
                   nwrites, nmessages>>

\* setStateAsync(`${basePath}.payload`, '', true), line 1329
ApnClear(h) ==
    /\ h.pc = "clear"
    /\ apnHandlers' = apnHandlers \ {h}
    /\ states' = Put(states, ApnBasePath(h.id) \o <<"payload">>, Str(""))
    /\ signals' = Publish(signals, [id |-> ApnBasePath(h.id) \o <<"payload">>,
                                    val |-> Str(""), w |-> 0])
    /\ UNCHANGED <<readyState, socketClientId, clients, messageQueue, regHandlers,
                   replies, delivered, requeued, nwrites, nmessages, genHandlers, runs>>

\* ------------------------------------------------------------------------
\* Specification
\* ------------------------------------------------------------------------
Next ==
    \/ \E s \in Sockets : Connection(s)
    \/ \E s \in Sockets : Close(s)
    \/ \E s \in Sockets, text \in RegTexts : WebSocketMessage(s, text)
    \/ \E h \in regHandlers : RegDeviceId(h, TRUE)
    \/ \E h \in regHandlers : RegConnection(h, TRUE)
    \/ \E h \in regHandlers : RegReplyAndDrain(h)
    \/ \E id \in PayloadIds : PayloadWrite(id)
    \/ onStateChange
    \/ \E h \in apnHandlers : ApnResolve(h)
    \/ \E h \in apnHandlers : ApnDispatch(h)
    \/ \E h \in apnHandlers : ApnClear(h)

Spec == Init /\ [][Next]_vars

\* ------------------------------------------------------------------------
\* The trigger alone: external writes to the `send` and `payload` fields of
\* one device whose client id is recorded; no transport session
\* ------------------------------------------------------------------------
TriggerBase == NS \o <<"person", "alice", "phone", "messages">>
\* the store of an idle device: send = false, payload empty, a title to send
TriggerStore ==
    Put(Put(Put(RecordedStore, TriggerBase \o <<"send">>, Bool(FALSE)),
            TriggerBase \o <<"payload">>, Str("")),
        TriggerBase \o <<"title">>, Str(FieldText["title"]))
\* values external actors write to `send`, and empty values written to `payload`
SendValues == {Bool(TRUE), Bool(FALSE), Num(1), Str("true"), Null}
EmptyValues == {Str(""), Null}

InitTrigger ==
    /\ readyState = [s \in Sockets |-> "NONE"]
    /\ socketClientId = [s \in Sockets |-> Undefined]
    /\ clients = EmptyMap
    /\ messageQueue = EmptyMap
    /\ states = TriggerStore
    /\ signals = <<>>
    /\ apnHandlers = {}
    /\ regHandlers = {}
    /\ genHandlers = {}
    /\ runs = EmptyMap
    /\ replies = [s \in Sockets |-> <<>>]
    /\ delivered = EmptyMap
    /\ requeued = {}
    /\ nwrites = 0
    /\ nmessages = 0

NextTrigger ==
    \/ \E val \in SendValues : ExternalWrite(TriggerBase \o <<"send">>, val)
    \/ \E val \in EmptyValues : ExternalWrite(TriggerBase \o <<"payload">>, val)
    \/ PayloadWrite(TriggerBase \o <<"payload">>)
    \/ onStateChange
    \/ \E h \in genHandlers : GenRead(h, TRUE)
    \/ \E h \in genHandlers : GenWrite(h)
    \/ \E h \in genHandlers : SendReset(h)
    \/ \E h \in apnHandlers : ApnResolve(h)
    \/ \E h \in apnHandlers : ApnDispatch(h)
    \/ \E h \in apnHandlers : ApnClear(h)

SpecTrigger == InitTrigger /\ [][NextTrigger]_vars

\* ------------------------------------------------------------------------
\* Broadcast: every device has registered in an earlier run (alice's phone and
\* watch as c1 and c2, bob's tablet as c3, or bob's tablet not or emptily
\* recorded); c1 and c2 register again, and payloads are written to the global
\* path
\* ------------------------------------------------------------------------
AliceStore ==
    Put(Put(EmptyMap, WsDeviceIdPath("alice", "phone"), Str("c1")),
        WsDeviceIdPath("alice", "watch"), Str("c2"))
BroadcastStores ==
    {AliceStore} \cup {Put(AliceStore, WsDeviceIdPath("bob", "tablet"), v) :
                          v \in {Str("c3"), Str("")}}

InitBroadcast ==
    /\ readyState = [s \in Sockets |-> "NONE"]
    /\ socketClientId = [s \in Sockets |-> Undefined]
    /\ clients = EmptyMap
    /\ messageQueue = EmptyMap
    /\ states \in BroadcastStores
    /\ signals = <<>>
    /\ apnHandlers = {}
    /\ regHandlers = {}
    /\ genHandlers = {}
    /\ runs = EmptyMap
    /\ replies = [s \in Sockets |-> <<>>]
    /\ delivered = EmptyMap
    /\ requeued = {}
    /\ nwrites = 0
    /\ nmessages = 0

NextBroadcast ==
    \/ \E s \in Sockets : Connection(s)
    \/ \E s \in Sockets, text \in RegTexts : WebSocketMessage(s, text)
    \/ \E h \in regHandlers : RegDeviceId(h, TRUE)
    \/ \E h \in regHandlers : RegConnection(h, TRUE)
    \/ \E h \in regHandlers : RegReplyAndDrain(h)
    \/ PayloadWrite(GlobalPayloadId)
    \/ onStateChange
    \/ \E h \in apnHandlers : ApnResolve(h)
    \/ \E h \in apnHandlers : ApnDispatch(h)
    \/ \E h \in apnHandlers : ApnClear(h)

SpecBroadcast == InitBroadcast /\ [][NextBroadcast]_vars

\* ------------------------------------------------------------------------
\* Scopes: payloads written to a device path, a person path and the global
\* path, with a person whose name is `payload`; no transport session
\* ------------------------------------------------------------------------
ScopeStore == Put(AliceStore, WsDeviceIdPath("payload", "phone"), Str("c3"))
ScopeIds == {DevicePayloadId("alice", "phone"), PersonPayloadId("alice"),
             DevicePayloadId("payload", "phone"), GlobalPayloadId}

InitScope ==
    /\ readyState = [s \in Sockets |-> "NONE"]
    /\ socketClientId = [s \in Sockets |-> Undefined]
    /\ clients = EmptyMap
    /\ messageQueue = EmptyMap
    /\ states = ScopeStore
    /\ signals = <<>>
    /\ apnHandlers = {}
    /\ regHandlers = {}
    /\ genHandlers = {}
    /\ runs = EmptyMap
    /\ replies = [s \in Sockets |-> <<>>]
    /\ delivered = EmptyMap
    /\ requeued = {}
    /\ nwrites = 0
    /\ nmessages = 0

NextScope ==
    \/ \E id \in ScopeIds : PayloadWrite(id)
    \/ onStateChange
    \/ \E h \in apnHandlers : ApnResolve(h)
    \/ \E h \in apnHandlers : ApnDispatch(h)
    \/ \E h \in apnHandlers : ApnClear(h)

SpecScope == InitScope /\ [][NextScope]_vars

\* One client registered for both devices of alice: setDeviceToken writes the
\* client id to the ws_device_id of the device it names (line 1127) and no
\* handler clears it on another device.
SharedStore == Put(ScopeStore, WsDeviceIdPath("alice", "watch"), Str("c1"))

InitShared ==
    /\ readyState = [s \in Sockets |-> "NONE"]
    /\ socketClientId = [s \in Sockets |-> Undefined]
    /\ clients = EmptyMap
    /\ messageQueue = EmptyMap
    /\ states = SharedStore
    /\ signals = <<>>
    /\ apnHandlers = {}
    /\ regHandlers = {}
    /\ genHandlers = {}
    /\ runs = EmptyMap
    /\ replies = [s \in Sockets |-> <<>>]
    /\ delivered = EmptyMap
    /\ requeued = {}
    /\ nwrites = 0
    /\ nmessages = 0

SpecShared == InitShared /\ [][NextScope]_vars

\* External actors also write a text that is no JSON to the `payload` ids.
NextUndecodable ==
    \/ \E id \in ScopeIds : PayloadWrite(id)
    \/ \E id \in ScopeIds : ExternalWrite(id, Str(MalformedText))
    \/ onStateChange
    \/ \E h \in apnHandlers : ApnResolve(h)
    \/ \E h \in apnHandlers : ApnDispatch(h)
    \/ \E h \in apnHandlers : ApnClear(h)

SpecUndecodable == InitScope /\ [][NextUndecodable]_vars

\* ------------------------------------------------------------------------
\* The builder: the notification fields of one device hold, each, its text or
\* nothing; what is nothing is the empty string in all of them or no state in
\* all of them.  An external actor sets `send` to true.
\* ------------------------------------------------------------------------
FieldNames == DOMAIN FieldText
FieldStore(present, blank) ==
    LET base == Put(Put(RecordedStore, TriggerBase \o <<"send">>, Bool(FALSE)),
                    TriggerBase \o <<"payload">>, Str(""))
        set == IF blank THEN FieldNames ELSE present
    IN  [id \in DOMAIN base \cup {TriggerBase \o <<k>> : k \in set} |->
            IF id \in DOMAIN base THEN base[id]
            ELSE IF id[Len(id)] \in present THEN Str(FieldText[id[Len(id)]])
            ELSE Str("")]
FieldStores == {FieldStore(present, blank) : present \in SUBSET FieldNames,
                                             blank \in BOOLEAN}

InitBuild ==
    /\ readyState = [s \in Sockets |-> "NONE"]
    /\ socketClientId = [s \in Sockets |-> Undefined]
    /\ clients = EmptyMap
    /\ messageQueue = EmptyMap
    /\ states \in FieldStores
    /\ signals = <<>>
    /\ apnHandlers = {}
    /\ regHandlers = {}
    /\ genHandlers = {}
    /\ runs = EmptyMap
    /\ replies = [s \in Sockets |-> <<>>]
    /\ delivered = EmptyMap
    /\ requeued = {}
    /\ nwrites = 0
    /\ nmessages = 0

\* an external actor sets `send` of the device to true
BuildRequest ==
    /\ nwrites < MaxBuilds
    /\ ExternalWrite(TriggerBase \o <<"send">>, Bool(TRUE))

NextBuild ==
    \/ BuildRequest
    \/ onStateChange
    \/ \E h \in genHandlers : GenRead(h, TRUE)
    \/ \E h \in genHandlers : GenWrite(h)
    \/ \E h \in genHandlers : SendReset(h)
    \/ \E h \in apnHandlers : ApnResolve(h)
    \/ \E h \in apnHandlers : ApnDispatch(h)
    \/ \E h \in apnHandlers : ApnClear(h)

SpecBuild == InitBuild /\ [][NextBuild]_vars

\* ------------------------------------------------------------------------
\* Store failures: a getStateAsync, getStatesAsync or setStateAsync call of a
\* handler is rejected.  A rejection inside a try block ends in its catch; one
\* outside rejects the promise of onStateChange, which the event emitter
\* (this.on('stateChange', ...), line 703) does not handle: the handler stays
\* in the model with pc "rejected".
\* ------------------------------------------------------------------------
\* setStateAsync(`${basePath}.payload`, payload, true) is rejected: catch, line 1291
GenWriteFailed(h) ==
    /\ h.pc = "write"
    /\ genHandlers' = (genHandlers \ {h}) \cup {[h EXCEPT !.pc = "reset"]}
    /\ UNCHANGED <<readyState, socketClientId, clients, messageQueue, states, signals,
                   apnHandlers, regHandlers, runs, replies, delivered, requeued,
                   nwrites, nmessages>>

\* setStateAsync(id, false, true), line 758, is rejected: onStateChange has no try
SendResetFailed(h) ==
    /\ h.pc = "reset"
    /\ genHandlers' = (genHandlers \ {h}) \cup {[h EXCEPT !.pc = "rejected"]}
    /\ UNCHANGED <<readyState, socketClientId, clients, messageQueue, states, signals,
                   apnHandlers, regHandlers, runs, replies, delivered, requeued,
                   nwrites, nmessages>>

\* getStatesAsync or getStateAsync of lines 1302-1311 is rejected: the calls
\* stand before the try of line 1314
ApnResolveFailed(h) ==
    /\ h.pc = "resolve"
    /\ apnHandlers' = (apnHandlers \ {h}) \cup {[h EXCEPT !.pc = "rejected"]}
    /\ UNCHANGED <<readyState, socketClientId, clients, messageQueue, states, signals,
                   regHandlers, genHandlers, runs, replies, delivered, requeued,
                   nwrites, nmessages>>

\* getStateAsync(`${basePath}.payload`), line 1315, is rejected: catch, line 1333
ApnReadFailed(h) ==
    /\ h.pc = "read"
    /\ apnHandlers' = apnHandlers \ {h}
    /\ UNCHANGED <<readyState, socketClientId, clients, messageQueue, states, signals,
                   regHandlers, genHandlers, runs, replies, delivered, requeued,
                   nwrites, nmessages>>

\* setStateAsync(`${basePath}.payload`, '', true), line 1329, is rejected: catch,
\* line 1333
ApnClearFailed(h) ==
    /\ h.pc = "clear"
    /\ apnHandlers' = apnHandlers \ {h}
    /\ UNCHANGED <<readyState, socketClientId, clients, messageQueue, states, signals,
                   regHandlers, genHandlers, runs, replies, delivered, requeued,
                   nwrites, nmessages>>

\* One device with a title to send; external actors set its `send` to true and
\* write payloads to its `payload`; any store call of a handler may be rejected.
StoreFailRequest ==
    /\ nwrites < MaxRequests
    /\ \/ ExternalWrite(TriggerBase \o <<"send">>, Bool(TRUE))
       \/ PayloadWrite(TriggerBase \o <<"payload">>)

NextStoreFail ==
    \/ StoreFailRequest
    \/ onStateChange
    \/ \E h \in genHandlers, ok \in BOOLEAN : GenRead(h, ok)
    \/ \E h \in genHandlers : GenWrite(h)
    \/ \E h \in genHandlers : GenWriteFailed(h)
    \/ \E h \in genHandlers : SendReset(h)
    \/ \E h \in genHandlers : SendResetFailed(h)
    \/ \E h \in apnHandlers : ApnResolve(h)
    \/ \E h \in apnHandlers : ApnResolveFailed(h)
    \/ \E h \in apnHandlers : ApnDispatch(h)
    \/ \E h \in apnHandlers : ApnReadFailed(h)
    \/ \E h \in apnHandlers : ApnClear(h)
    \/ \E h \in apnHandlers : ApnClearFailed(h)

SpecStoreFail == InitTrigger /\ [][NextStoreFail]_vars

\* ------------------------------------------------------------------------
\* Send signals of any path: subscribeStates('*') delivers the change of every
\* state of the namespace, and onStateChange tests only the last segment.  An
\* external actor sets to true a state named `send` that is not the `send` of
\* a `messages` channel, or the global `send`.
\* ------------------------------------------------------------------------
OtherSendIds == {NS \o <<"send">>, NS \o <<"foo", "send">>,
                 NS \o <<"person", "alice", "phone", "send">>}
SendIds == OtherSendIds \cup {GlobalSendId}

NextSendPath ==
    \/ \E id \in SendIds : ExternalWrite(id, Bool(TRUE))
    \/ onStateChange
    \/ \E h \in genHandlers : GenRead(h, TRUE)
    \/ \E h \in genHandlers : GenWrite(h)
    \/ \E h \in genHandlers : SendReset(h)
    \/ \E h \in apnHandlers : ApnResolve(h)
    \/ \E h \in apnHandlers : ApnDispatch(h)
    \/ \E h \in apnHandlers : ApnClear(h)

SpecSendPath == InitScope /\ [][NextSendPath]_vars

\* ------------------------------------------------------------------------
\* Inbound messages of every kind on one session: registrations, messages
\* with wrong credentials, an unknown action and an undecodable text.  A
\* payload written for alice's phone is queued or sent meanwhile.
\* ------------------------------------------------------------------------
InboundMessage(text) ==
    /\ nmessages < MaxInbound
    /\ WebSocketMessage(SocketOrder[1], text)

InboundPayload ==
    /\ nwrites < MaxBuilds
    /\ PayloadWrite(DevicePayloadId("alice", "phone"))

NextInbound ==
    \/ Connection(SocketOrder[1])
    \/ Close(SocketOrder[1])
    \/ \E text \in InboundTexts : InboundMessage(text)
    \/ \E h \in regHandlers : RegDeviceId(h, TRUE)
    \/ \E h \in regHandlers : RegConnection(h, TRUE)
    \/ \E h \in regHandlers : RegReplyAndDrain(h)
    \/ InboundPayload
    \/ onStateChange
    \/ \E h \in apnHandlers : ApnResolve(h)
    \/ \E h \in apnHandlers : ApnDispatch(h)
    \/ \E h \in apnHandlers : ApnClear(h)

SpecInbound == Init /\ [][NextInbound]_vars

\* ------------------------------------------------------------------------
\* Registrations on one session, complete or lacking clientId, data.person,
\* data.device or data; the store calls of a registration may be rejected.
\* ------------------------------------------------------------------------
NextIncomplete ==
    \/ Connection(SocketOrder[1])
    \/ Close(SocketOrder[1])
    \/ \E text \in IncompleteTexts : InboundMessage(text)
    \/ \E h \in regHandlers, ok \in BOOLEAN : RegDeviceId(h, ok)
    \/ \E h \in regHandlers, ok \in BOOLEAN : RegConnection(h, ok)
    \/ \E h \in regHandlers : RegReplyAndDrain(h)
    \/ InboundPayload
    \/ onStateChange
    \/ \E h \in apnHandlers : ApnResolve(h)
    \/ \E h \in apnHandlers : ApnDispatch(h)
    \/ \E h \in apnHandlers : ApnClear(h)

SpecIncomplete == Init /\ [][NextIncomplete]_vars

\* ------------------------------------------------------------------------
\* Tag triggers on one session, for two tags that exist and one that does
\* not; every device has a client id recorded.  Nothing else writes a state.
\* ------------------------------------------------------------------------
NextTags ==
    \/ Connection(SocketOrder[1])
    \/ \E text \in TagTexts : InboundMessage(text)
    \/ \E h \in regHandlers : TagLookup(h)
    \/ \E h \in regHandlers : TagTimer(h)
    \/ onStateChange
    \/ \E h \in genHandlers : GenRead(h, TRUE)
    \/ \E h \in genHandlers : GenWrite(h)
    \/ \E h \in genHandlers : SendReset(h)
    \/ \E h \in apnHandlers : ApnResolve(h)
    \/ \E h \in apnHandlers : ApnDispatch(h)
    \/ \E h \in apnHandlers : ApnClear(h)

SpecTags == InitScope /\ [][NextTags]_vars

\* ------------------------------------------------------------------------
\* Properties
\* ------------------------------------------------------------------------
FrameSeq(log) == [i \in 1..Len(log) |-> log[i].frame]
QueueFrames(queue) == [i \in 1..Len(queue) |-> JSONstringify(queue[i])]
WriteOf(frame) == CHOOSE k \in 1..MaxEvents : Frame(k) = frame

\* the notification of write k has been written for clientId or waits in its queue
Holds(d, mq, clientId, k) ==
    \/ \E i \in 1..Len(Log(d, clientId)) : Log(d, clientId)[i].frame = Frame(k)
    \/ \E i \in 1..Len(Pending(mq, clientId)) :
         JSONstringify(Pending(mq, clientId)[i]) = Frame(k)

\* how many times it has been written for clientId or enqueued for it
Copies(clientId, k) ==
    Cardinality({i \in 1..Len(Log(delivered, clientId)) :
                    Log(delivered, clientId)[i].frame = Frame(k)})
    + Cardinality({i \in 1..Len(Pending(messageQueue, clientId)) :
                      JSONstringify(Pending(messageQueue, clientId)[i]) = Frame(k)})

\* what a step appended to the log of clientId
Appended(clientId) ==
    SubSeq(Log(delivered', clientId), Len(Log(delivered, clientId)) + 1,
           Len(Log(delivered', clientId)))

\* n copies of x
Repeat(x, n) == [i \in 1..n |-> x]
Occurrences(seq, x) == Cardinality({i \in 1..Len(seq) : seq[i] = x})

\* C1: when the dispatch started by the k-th payload write has run, every
\* client id it resolved has the notification of that write, sent or queued.
C1_GuaranteedDelivery ==
    [][\A h \in apnHandlers :
          (h.pc = "read" /\ h \notin apnHandlers') =>
              \A i \in 1..Len(h.clientIds) :
                  Truthy(h.clientIds[i]) =>
                      Holds(delivered', messageQueue', h.clientIds[i], h.w)]_vars

\* C2: the notifications written for one client id are in the order of the
\* payload writes that caused them.
C2_PerClientOrder ==
    \A c \in DOMAIN delivered :
        \A i, j \in 1..Len(delivered[c]) :
            i < j => WriteOf(delivered[c][i].frame) <= WriteOf(delivered[c][j].frame)

\* C3: a dispatch step sends to a resolved client id at once, leaving its
\* queue alone, exactly when the registry has an open socket for it; otherwise
\* it appends the message to the queue of that id and sends nothing; the
\* handler goes on to clear the payload either way.
C3_SendOrEnqueue ==
    [][\A h \in apnHandlers :
          (h.pc = "read" /\ [h EXCEPT !.pc = "clear"] \in apnHandlers') =>
              LET text == states[ApnBasePath(h.id) \o <<"payload">>][2]
                  message == [action |-> "notification", payload |-> JSONparse(text)]
              IN  \A c \in ClientIds :
                      LET n == Occurrences(h.clientIds, c) IN
                      IF c \in DOMAIN clients /\ readyState[clients[c]] = "OPEN"
                      THEN /\ Appended(c) =
                                Repeat([socket |-> clients[c],
                                        frame |-> JSONstringify(message),
                                        via |-> "direct"], n)
                           /\ Pending(messageQueue', c) = Pending(messageQueue, c)
                      ELSE /\ Appended(c) = <<>>
                           /\ Pending(messageQueue', c) =
                                Pending(messageQueue, c) \o Repeat(message, n)]_vars

\* C3 witness: one client id was sent a notification directly and one has a
\* notification waiting in its queue
C3_Witness ==
    /\ \E c \in DOMAIN delivered : \E i \in 1..Len(delivered[c]) :
           delivered[c][i].via = "direct"
    /\ \E c \in DOMAIN messageQueue : Len(messageQueue[c]) > 0

\* C4: a drain on an open socket writes every queued message of the socket's
\* client id to that socket once, in queue order, and removes the queue; an
\* enqueue extends a queue at its tail.
C4_FifoDrain ==
    [][/\ \A h \in regHandlers :
            (h.pc = "reply" /\ h \notin regHandlers' /\ readyState[h.socket] = "OPEN") =>
                LET c == socketClientId[h.socket] IN
                /\ FrameSeq(Appended(c)) = QueueFrames(Pending(messageQueue, c))
                /\ \A i \in 1..Len(Appended(c)) :
                       Appended(c)[i].socket = h.socket /\ Appended(c)[i].via = "replay"
                /\ c \notin DOMAIN messageQueue'
       /\ \A c \in DOMAIN messageQueue' :
            Len(messageQueue'[c]) > Len(Pending(messageQueue, c)) =>
                SubSeq(messageQueue'[c], 1, Len(Pending(messageQueue, c)))
                    = Pending(messageQueue, c)]_vars

\* C4 witness: two queued notifications were replayed, first the older, and
\* the queue of the client id is gone
C4_Witness ==
    \E c \in DOMAIN delivered :
        /\ c \notin DOMAIN messageQueue
        /\ \E i \in 1..(Len(delivered[c]) - 1) :
               /\ delivered[c][i].via = "replay" /\ delivered[c][i + 1].via = "replay"
               /\ WriteOf(delivered[c][i].frame) < WriteOf(delivered[c][i + 1].frame)

\* C5: a drain that finds the socket not open ends with the queue exactly as
\* it was and nothing written.
C5_PutBackAtHead ==
    [][\A h \in regHandlers :
          (h.pc = "reply" /\ h \notin regHandlers' /\ readyState[h.socket] # "OPEN") =>
              /\ messageQueue' = messageQueue
              /\ delivered' = delivered]_vars

\* C5 witness: a drain put a message back and the queue holds two messages
C5_Witness ==
    \E c \in requeued : c \in DOMAIN messageQueue /\ Len(messageQueue[c]) >= 2

\* C6: a registration that ends on an open socket has drained the queue of
\* the client id it registered, onto that socket, in queue order.
C6_ReconnectReplay ==
    [][\A h \in regHandlers :
          (h.pc = "reply" /\ h \notin regHandlers' /\ readyState[h.socket] = "OPEN") =>
              /\ h.clientId \notin DOMAIN messageQueue'
              /\ FrameSeq(Appended(h.clientId)) =
                     QueueFrames(Pending(messageQueue, h.clientId))]_vars

\* C7: no notification is sent directly to a client id while notifications
\* for it wait in its queue.
C7_NoDirectSendPastBacklog ==
    [][\A c \in DOMAIN delivered' :
          \A i \in 1..Len(Appended(c)) :
              Appended(c)[i].via = "direct" => Pending(messageQueue, c) = <<>>]_vars

\* C8: every socket in the registry is open.
C8_RegistryOpen ==
    \A id \in DOMAIN clients : readyState[clients[id]] = "OPEN"

\* C9: every key of messageQueue maps to a non-empty sequence.
C9_NoEmptyQueue ==
    \A c \in DOMAIN messageQueue : Len(messageQueue[c]) > 0

\* C9 witness: a queue was drained to its end and its key is gone
C9_Witness ==
    \E c \in DOMAIN delivered :
        /\ c \notin DOMAIN messageQueue
        /\ \E i \in 1..Len(delivered[c]) : delivered[c][i].via = "replay"

\* C10: no client id is sent or enqueued the notification of one payload
\* write more than once.
C10_AtMostOnce ==
    \A c \in ClientIds : \A k \in 1..MaxEvents : Copies(c, k) <= 1

\* C11: a dispatch that read a payload and sent or enqueued it for the client
\* ids it resolved (none included) goes on to the clearing write, and when the
\* handler ends the `payload` field of its base path is the empty string.
C11_PayloadCleared ==
    [][\A h \in apnHandlers :
          LET path == ApnBasePath(h.id) \o <<"payload">> IN
          /\ (h.pc = "read" /\ h \notin apnHandlers' /\ HasState(path)
                /\ Truthy(StateVal(path)) /\ Decodable(StateVal(path)[2]))
                => [h EXCEPT !.pc = "clear"] \in apnHandlers'
          /\ (h.pc = "clear" /\ h \notin apnHandlers')
                => (path \in DOMAIN states' /\ states'[path] = Str(""))]_vars

\* C11 witness: a payload was written, its dispatch resolved no recipient, and
\* the field is empty again with no handler left
C11_Witness ==
    /\ nwrites = 1
    /\ delivered = EmptyMap /\ messageQueue = EmptyMap
    /\ apnHandlers = {} /\ signals = <<>>
    /\ \E id \in PayloadIds : HasState(id) /\ StateVal(id) = Str("")

\* C12: a dispatch that sends or enqueues was started by a `payload` signal
\* whose new value is neither empty nor absent.
C12_NonEmptyOnly ==
    [][\A h \in apnHandlers :
          (h.pc = "read" /\ h \notin apnHandlers'
             /\ (delivered' # delivered \/ messageQueue' # messageQueue))
              => h.val \notin {Str(""), Null, Undefined}]_vars

\* the client ids recorded for the devices in ds: their non-empty ws_device_id
RecordedIds(ds) ==
    {states[WsDeviceIdPath(d[1], d[2])] :
        d \in {x \in ds : WsDeviceIdPath(x[1], x[2]) \in DOMAIN states}} \ {Str("")}
AllDevices == {Devices[i] : i \in 1..Len(Devices)}

\* C13: a dispatch for the global path resolves exactly the client ids
\* recorded for the devices of all persons, each once; it then sends the
\* notification once to each of them whose registry socket is open, enqueues
\* it once for each of the others, and touches no other client id.
C13_Broadcast ==
    [][\A h \in apnHandlers :
          h.id = GlobalPayloadId =>
              /\ (h.pc = "resolve" /\ h \notin apnHandlers') =>
                    \E r \in apnHandlers' :
                        /\ r.pc = "read" /\ r.w = h.w
                        /\ KeySet(r.clientIds) = RecordedIds(AllDevices)
                        /\ Len(r.clientIds) = Cardinality(RecordedIds(AllDevices))
              /\ (h.pc = "read" /\ [h EXCEPT !.pc = "clear"] \in apnHandlers') =>
                    \A c \in ClientIds :
                        LET n == IF c \in KeySet(h.clientIds) THEN 1 ELSE 0 IN
                        IF isOpen(c)
                        THEN /\ Len(Appended(c)) = n
                             /\ \A i \in 1..n : Appended(c)[i].via = "direct"
                             /\ Pending(messageQueue', c) = Pending(messageQueue, c)
                        ELSE /\ Appended(c) = <<>>
                             /\ Len(Pending(messageQueue', c)) =
                                    Len(Pending(messageQueue, c)) + n]_vars

\* C13 witness: with c1 and c2 connected and c3 recorded but not connected,
\* one global payload was sent to c1 and to c2 and waits in the queue of c3
C13_Witness ==
    /\ nwrites = 1
    /\ isOpen(Str("c1")) /\ isOpen(Str("c2")) /\ ~isOpen(Str("c3"))
    /\ DOMAIN delivered = {Str("c1"), Str("c2")}
    /\ \A c \in DOMAIN delivered :
           Len(delivered[c]) = 1 /\ delivered[c][1].via = "direct"
                                 /\ delivered[c][1].frame = Frame(1)
    /\ DOMAIN messageQueue = {Str("c3")}
    /\ QueueFrames(messageQueue[Str("c3")]) = <<Frame(1)>>

\* the devices a `payload` id addresses: one device, the devices of one
\* person, or all devices
ScopeDevices(id) ==
    IF Len(id) = Len(DevicePayloadId("p", "d")) THEN {<<id[4], id[5]>>}
    ELSE IF Len(id) = Len(PersonPayloadId("p")) THEN {d \in AllDevices : d[1] = id[4]}
    ELSE AllDevices

\* C14: the dispatch started for a `payload` id resolves exactly the client
\* ids recorded for the devices that id addresses.
C14_ScopeIsolation ==
    [][\A h \in apnHandlers :
          (h.pc = "resolve" /\ h \notin apnHandlers') =>
              \E r \in apnHandlers' :
                  /\ r.pc = "read" /\ r.w = h.w /\ r.id = h.id
                  /\ KeySet(r.clientIds) = RecordedIds(ScopeDevices(h.id))]_vars

\* C15: when a device has no client id recorded (ws_device_id absent or
\* empty), a person or broadcast dispatch resolves no entry for it but the
\* recorded client ids of the other devices; the dispatch goes on to the
\* clearing write, gives each resolved client id the notification (sent or
\* enqueued) and sends or enqueues nothing for any other id.
C15_UnresolvedSkipped ==
    [][\A h \in apnHandlers :
          LET path == ApnBasePath(h.id) \o <<"payload">> IN
          /\ (h.pc = "resolve" /\ h \notin apnHandlers') =>
                \E r \in apnHandlers' :
                    /\ r.pc = "read" /\ r.w = h.w
                    /\ \A i \in 1..Len(r.clientIds) : Truthy(r.clientIds[i])
                    /\ KeySet(r.clientIds) = RecordedIds(ScopeDevices(h.id))
          /\ (h.pc = "read" /\ h \notin apnHandlers' /\ HasState(path)
                /\ Truthy(StateVal(path)) /\ Decodable(StateVal(path)[2])) =>
                /\ [h EXCEPT !.pc = "clear"] \in apnHandlers'
                /\ DOMAIN messageQueue' \cup DOMAIN delivered' \subseteq ClientIds
                /\ \A c \in ClientIds :
                       Len(Appended(c)) + Len(Pending(messageQueue', c))
                           - Len(Pending(messageQueue, c))
                         = Occurrences(h.clientIds, c)]_vars

\* C15 witness: bob's tablet has an empty ws_device_id, a global payload was
\* dispatched and cleared, c1 and c2 have it and nothing else was written
C15_Witness ==
    /\ WsDeviceIdPath("bob", "tablet") \in DOMAIN states
    /\ states[WsDeviceIdPath("bob", "tablet")] = Str("")
    /\ nwrites = 1 /\ apnHandlers = {} /\ signals = <<>>
    /\ states[GlobalPayloadId] = Str("")
    /\ \A c \in {Str("c1"), Str("c2")} : Copies(c, 1) = 1
    /\ DOMAIN messageQueue \cup DOMAIN delivered = {Str("c1"), Str("c2")}

\* the member of a decoded notification that holds field k, if it has one
HasKey(n, k) ==
    IF k \in KeySet(AlertKeys)
    THEN "aps" \in DOMAIN n.top /\ "alert" \in DOMAIN n.aps /\ k \in DOMAIN n.alert
    ELSE IF k = "sound" THEN "aps" \in DOMAIN n.top /\ k \in DOMAIN n.aps
    ELSE k \in DOMAIN n.top
KeyValue(n, k) ==
    IF k \in KeySet(AlertKeys) THEN n.alert[k]
    ELSE IF k = "sound" THEN n.aps[k]
    ELSE n.top[k]

\* C16: the text generatePayload writes decodes to an object that has the
\* key of a field, with the field's value, exactly when the field's state is
\* non-empty, and no member is null; with only the title "Hi" set, the text
\* is {"aps":{"alert":{"title":"Hi"}}}.
C16_OmissionContract ==
    [][\A h \in genHandlers :
          (h.pc = "write" /\ h \notin genHandlers') =>
              LET path == GenBasePath(h.id) \o <<"payload">>
                  text == states'[path][2]
                  set == {k \in FieldNames : FieldVal(GenBasePath(h.id), k) # Str("")}
              IN  /\ Decodable(text)
                  /\ \A k \in FieldNames :
                         /\ HasKey(JSONparse(text), k) <=> k \in set
                         /\ k \in set =>
                                KeyValue(JSONparse(text), k) = FieldVal(GenBasePath(h.id), k)
                  /\ set = {"title"} => text = "{\"aps\":{\"alert\":{\"title\":\"Hi\"}}}"]_vars

\* C16 witness: with the title "Hi", an empty body and an empty subtitle the
\* builder has run and the text of the example is in the payload field
C16_Witness ==
    /\ Runs(runs, 1) = 1
    /\ HasState(TriggerBase \o <<"title">>) /\ states[TriggerBase \o <<"title">>] = Str("Hi")
    /\ HasState(TriggerBase \o <<"body">>) /\ states[TriggerBase \o <<"body">>] = Str("")
    /\ states[TriggerBase \o <<"payload">>] = Str("{\"aps\":{\"alert\":{\"title\":\"Hi\"}}}")

\* C17: when title, subtitle and body are all empty or absent, the text
\* generatePayload writes has no `alert` key.
C17_NoEmptyAlert ==
    [][\A h \in genHandlers :
          (h.pc = "write" /\ h \notin genHandlers'
             /\ \A k \in KeySet(AlertKeys) : FieldVal(GenBasePath(h.id), k) = Str("")) =>
              LET text == states'[GenBasePath(h.id) \o <<"payload">>][2]
              IN  /\ Decodable(text)
                  /\ "alert" \notin DOMAIN JSONparse(text).aps]_vars

\* C18: generatePayload starts only in the step that handles a `.send` signal
\* whose value is the boolean true; an external write of any other value to
\* `send` leaves no signal to act on, starts no handler, and changes nothing
\* in the store but the flag it wrote.
C18_SendOnlyTrue ==
    [][/\ (\E h \in genHandlers' \ genHandlers : h.pc = "read") =>
              /\ signals # <<>>
              /\ EndsWith(Head(signals).id, "send")
              /\ Head(signals).val = Bool(TRUE)
       /\ \A v \in SendValues \ {Bool(TRUE)} :
              (nwrites' = nwrites + 1
                 /\ states[TriggerBase \o <<"send">>] # v
                 /\ states'[TriggerBase \o <<"send">>] = v) =>
                  /\ states' = Put(states, TriggerBase \o <<"send">>, v)
                  /\ signals' = signals
                  /\ genHandlers' = genHandlers /\ apnHandlers' = apnHandlers
                  /\ runs' = runs]_vars

\* C18 witness: the number 1 and the text "true" have been the value of
\* `send`, and no build has started
C18_Witness ==
    /\ nwrites = 2
    /\ states[TriggerBase \o <<"send">>] = Str("true")
    /\ states[TriggerBase \o <<"payload">>] = Str("")
    /\ runs = EmptyMap /\ genHandlers = {} /\ apnHandlers = {} /\ signals = <<>>
    /\ messageQueue = EmptyMap

\* C19: an external write that turns `send` to true leaves one signal of that
\* write; handling it starts the one run of generatePayload for the write;
\* the run writes the payload, then the flag is set to false, which leaves no
\* signal behind and ends the handler.
C19_ResetOnce ==
    [][/\ (nwrites' = nwrites + 1
             /\ states[TriggerBase \o <<"send">>] # Bool(TRUE)
             /\ states'[TriggerBase \o <<"send">>] = Bool(TRUE)) =>
              signals' = Append(signals, [id |-> TriggerBase \o <<"send">>,
                                          val |-> Bool(TRUE), w |-> nwrites'])
       /\ \A w \in 0..MaxEvents :
              /\ Runs(runs', w) <= 1
              /\ Runs(runs', w) = 1 =>
                     \/ Runs(runs, w) = 1
                     \/ /\ signals # <<>> /\ Head(signals).w = w
                        /\ Head(signals).val = Bool(TRUE)
                        /\ \A i \in 1..Len(signals') : signals'[i].w # w
       /\ \A h \in genHandlers :
              /\ Runs(runs, h.w) = 1
              /\ (h.pc = "write" /\ h \notin genHandlers') =>
                     [h EXCEPT !.pc = "reset"] \in genHandlers'
              /\ (h.pc = "reset" /\ h \notin genHandlers') =>
                     /\ states'[h.id] = Bool(FALSE)
                     /\ signals' = signals
                     /\ genHandlers' = genHandlers \ {h}]_vars

\* C19 witness: `send` was set to true twice, each write started one run of
\* generatePayload, and the flag is false again with nothing left to handle
C19_Witness ==
    /\ nwrites = 2
    /\ Runs(runs, 1) = 1 /\ Runs(runs, 2) = 1
    /\ states[TriggerBase \o <<"send">>] = Bool(FALSE)
    /\ genHandlers = {} /\ apnHandlers = {} /\ signals = <<>>

\* no signal waits and no handler runs
Quiescent == signals = <<>> /\ genHandlers = {} /\ apnHandlers = {}

\* the handler steps still to come, at most: a `.send` signal is handled
\* (1), read (1), written (1, leaving a `.payload` signal) and reset (1); a
\* `.payload` signal is handled (1), resolved, dispatched and cleared (3)
Remaining ==
    8 * Cardinality({i \in 1..Len(signals) : EndsWith(signals[i].id, "send")})
    + 4 * Cardinality({i \in 1..Len(signals) : EndsWith(signals[i].id, "payload")})
    + 7 * Cardinality({h \in genHandlers : h.pc = "read"})
    + 6 * Cardinality({h \in genHandlers : h.pc = "write"})
    + 1 * Cardinality({h \in genHandlers : h.pc = "reset"})
    + 3 * Cardinality({h \in apnHandlers : h.pc = "resolve"})
    + 2 * Cardinality({h \in apnHandlers : h.pc = "read"})
    + 1 * Cardinality({h \in apnHandlers : h.pc = "clear"})

\* C20: only external requests start a build, each one build; every step
\* that is not an external write brings the end nearer, so the signals of the
\* adapter's own writes cannot keep the handlers running; and after one
\* request from idle the end has send = false, an empty payload and the built
\* notification enqueued once for the device's client id.
C20_ChainTerminates ==
    /\ [](\A w \in DOMAIN runs : w \in 1..nwrites /\ runs[w] = 1)
    /\ [][nwrites' = nwrites => Remaining' < Remaining]_vars
    /\ [](Quiescent <=> Remaining = 0)
    /\ []((Quiescent /\ nwrites = 1) =>
              /\ Runs(runs, 1) = 1
              /\ states[TriggerBase \o <<"send">>] = Bool(FALSE)
              /\ states[TriggerBase \o <<"payload">>] = Str("")
              /\ delivered = EmptyMap
              /\ DOMAIN messageQueue = {Str("c1")}
              /\ QueueFrames(messageQueue[Str("c1")]) =
                    <<JSONstringify([action |-> "notification",
                                     payload |-> JSONparse(BuildPayload(TriggerBase))])>>)

\* C20 witness: the chain of one request has run to its end
C20_Witness ==
    /\ Quiescent /\ nwrites = 1 /\ Runs(runs, 1) = 1
    /\ states[TriggerBase \o <<"send">>] = Bool(FALSE)
    /\ states[TriggerBase \o <<"payload">>] = Str("")
    /\ Len(Pending(messageQueue, Str("c1"))) = 1

\* C21: when a socket closes on which a client id registered for a device
\* (the registry maps the id to the socket, the device's ws_device_id is the
\* id and its connection is true), the close handler sets the device's
\* `connection` to false.
C21_OfflineOnClose ==
    [][\A s \in Sockets :
          (readyState[s] = "OPEN" /\ readyState'[s] = "CLOSED") =>
              \A r \in RegInputs :
                  (/\ r[1] \in DOMAIN clients /\ clients[r[1]] = s
                   /\ HasState(WsDeviceIdPath(r[2], r[3]))
                   /\ StateVal(WsDeviceIdPath(r[2], r[3])) = r[1]
                   /\ HasState(ConnectionPath(<<r[2], r[3]>>))
                   /\ StateVal(ConnectionPath(<<r[2], r[3]>>)) = Bool(TRUE)) =>
                      states'[ConnectionPath(<<r[2], r[3]>>)] = Bool(FALSE)]_vars

\* the store st holds value v at id
StoreHas(st, id, v) == id \in DOMAIN st /\ st[id] = v

\* what a step appended to the replies written to socket s
Replied(s) == SubSeq(replies'[s], Len(replies[s]) + 1, Len(replies'[s]))

NewlyWritten(clientId) ==
    SubSeq(Log(delivered', clientId), Len(Log(delivered, clientId)) + 1,
           Len(Log(delivered', clientId)))

\* C23: the registry changes only when a setDeviceToken message is taken; a
\* message of socket s for a client id that another socket holds puts s in
\* its place and closes no socket; and every notification sendMessageToClient
\* writes for a client id goes to the socket the registry holds for it.
C23_LastRegistrationWins ==
    [][/\ clients' # clients => \E h \in regHandlers' \ regHandlers : h.pc = "wsid"
       /\ \A h \in regHandlers' \ regHandlers :
              (h.pc = "wsid" /\ h.clientId \in DOMAIN clients
                   /\ clients[h.clientId] # h.socket) =>
                  /\ clients' = Put(clients, h.clientId, h.socket)
                  /\ readyState' = readyState
       /\ \A c \in ClientIds :
              \A i \in 1..Len(NewlyWritten(c)) :
                  NewlyWritten(c)[i].via = "direct" =>
                      /\ c \in DOMAIN clients' /\ clients' = clients
                      /\ NewlyWritten(c)[i].socket = clients[c]]_vars

\* C23 witness: c1 registered on s1 and then on s2, both sockets are open, and
\* a notification for c1 has been sent directly on s2
C23_Witness ==
    /\ readyState = [s \in Sockets |-> "OPEN"]
    /\ \E n \in 1..MaxEvents :
           [socket |-> "s1", clientId |-> Str("c1"), person |-> "alice",
            device |-> "phone", pc |-> "wsid", n |-> n] \in regHandlers
    /\ StoreHas(clients, Str("c1"), "s2")
    /\ \E i \in 1..Len(Log(delivered, Str("c1"))) :
           /\ Log(delivered, Str("c1"))[i].via = "direct"
           /\ Log(delivered, Str("c1"))[i].socket = "s2"

\* C24: a generatePayload whose reads are rejected writes nothing: the step
\* leaves the store as it is and publishes no signal, the rejection is caught
\* (the branch goes on to the reset of `send`, it is not rejected), and the
\* rest of the branch leaves the `payload` field as it is.  A branch that does
\* write holds a payload built from the fields it read.
C24_ReadFailureWritesNothing ==
    /\ [][\A h \in genHandlers :
             /\ (h.pc = "read" /\ h \notin genHandlers') =>
                    /\ [h EXCEPT !.pc = "rejected"] \notin genHandlers'
                    /\ [h EXCEPT !.pc = "reset"] \in genHandlers' =>
                           states' = states /\ signals' = signals
             /\ (h.pc = "reset" /\ h \notin genHandlers' /\ nwrites' = nwrites) =>
                    /\ HasState(GenBasePath(h.id) \o <<"payload">>)
                    /\ StoreHas(states', GenBasePath(h.id) \o <<"payload">>,
                                StateVal(GenBasePath(h.id) \o <<"payload">>))]_vars
    /\ [](\A h \in genHandlers :
             h.pc = "write" => h.payload = BuildPayload(GenBasePath(h.id)))

\* C24 witness: the reads of a build were rejected (the branch holds no
\* payload and stands before the reset of `send`), and the `payload` field is
\* as empty as it was
C24_Witness ==
    /\ \E h \in genHandlers : h.pc = "reset" /\ h.payload = ""
    /\ nwrites = 1 /\ apnHandlers = {} /\ signals = <<>>
    /\ StoreHas(states, TriggerBase \o <<"send">>, Bool(TRUE))
    /\ StoreHas(states, TriggerBase \o <<"payload">>, Str(""))

\* the three shapes of a `send` path: device, person, global
SendShape(id) ==
    \/ \E p, d \in {id[i] : i \in 1..Len(id)} : id = DeviceSendId(p, d)
    \/ \E p \in {id[i] : i \in 1..Len(id)} : id = PersonSendId(p)
    \/ id = GlobalSendId

\* C25: a `send` signal whose path has none of the three shapes is dropped:
\* the write that ends the build of generatePayload is not made for it (the
\* step changes no state and publishes no signal).
C25_MalformedDropped ==
    [][\A h \in genHandlers :
          (h.pc = "write" /\ h \notin genHandlers' /\ ~SendShape(h.id)) =>
              states' = states /\ signals' = signals]_vars

\* the texts whose username or password is not the configured one
UnauthenticatedTexts == {WsText(m) : m \in Unauthenticated}

\* a step in which the handler of an inbound message sends frame as its only
\* reply on the session and changes neither the registry, nor the queue, nor
\* the state store, starts no registration and leaves the socket open
RepliesOnly(frame) ==
    /\ Replied(SocketOrder[1]) = <<frame>>
    /\ UNCHANGED <<clients, socketClientId, messageQueue, states, signals, regHandlers,
                   readyState>>

\* C26: a message whose username or password differs from the configured one,
\* whatever its action, is answered with {error: "Authentication failed"} and
\* nothing else happens: registry, queue and state store are unchanged and the
\* socket stays open; and only such a message is answered so.
C26_AuthenticationFirst ==
    [][/\ \A text \in UnauthenticatedTexts :
              InboundMessage(text) => RepliesOnly("{\"error\":\"Authentication failed\"}")
       /\ \A text \in InboundTexts \ UnauthenticatedTexts :
              InboundMessage(text) =>
                  Replied(SocketOrder[1]) # <<"{\"error\":\"Authentication failed\"}">>]_vars

\* C26 witness: a session that has registered c1 sent a message with wrong
\* credentials next: it got the error, c1 is still registered, the socket is
\* open
C26_Witness ==
    /\ replies[SocketOrder[1]] = <<SuccessFrame, AuthFailedFrame>>
    /\ StoreHas(clients, Str("c1"), SocketOrder[1])
    /\ readyState[SocketOrder[1]] = "OPEN"

\* C27: an undecodable message is answered with exactly
\* {error: "Invalid message format"} and registry, queue and state store are
\* unchanged.
C27_MalformedRejected ==
    [][InboundMessage(MalformedText) =>
           RepliesOnly("{\"error\":\"Invalid message format\"}")]_vars

\* C27 witness: with a notification queued for c1, the session sent an
\* undecodable text and got the error; the notification is still queued
C27_Witness ==
    /\ replies[SocketOrder[1]] = <<InvalidFormatFrame>>
    /\ Len(Pending(messageQueue, Str("c1"))) = 1
    /\ clients = EmptyMap

ErrorFrames == {AuthFailedFrame, InvalidFormatFrame, UnknownActionFrame}

\* C28: an authenticated setDeviceToken message that lacks clientId,
\* data.person or data.device is answered with an error reply and changes
\* neither the registry, nor the queue, nor the state store (it starts no
\* registration).
C28_IncompleteRejected ==
    [][\A m \in Incomplete :
          InboundMessage(WsText(m)) => \E frame \in ErrorFrames : RepliesOnly(frame)]_vars

\* C30: when a store write of the registration started by the first message
\* is rejected and nothing else has been received, the registry is as it was
\* before the message, empty, and the queue is what it was.
C30_AbandonedRegistration ==
    [][\A h \in regHandlers :
          (/\ nmessages = 1 /\ h.pc \in {"wsid", "conn"}
           /\ ~\E g \in regHandlers' : g.n = h.n) =>
              clients' = EmptyMap /\ messageQueue' = messageQueue]_vars

\* C29: a rejected store call ends the handler of its signal without an
\* uncaught error: no onStateChange call ends rejected.
C29_FailuresConfined ==
    /\ \A h \in genHandlers : h.pc # "rejected"
    /\ \A h \in apnHandlers : h.pc # "rejected"

\* C31: sendQueuedMessages for a socket whose client id has nothing queued
\* is a no-op: the queue map, what has been sent and the put-back record are
\* what they were (no entry is created), once or twice over; the registry is
\* not an argument of it.  A drain run again right after a drain changes
\* nothing more.
C31_DrainIdempotent ==
    \A s \in Sockets :
        /\ Pending(messageQueue, socketClientId[s]) = <<>> =>
               /\ sendQueuedMessages(World, s) = World
               /\ sendQueuedMessages(sendQueuedMessages(World, s), s) = World
        /\ sendQueuedMessages(sendQueuedMessages(World, s), s) = sendQueuedMessages(World, s)

\* C31 witness: a registration has ended with its reply and its drain while
\* nothing was queued: nothing has been sent and no queue exists
C31_Witness ==
    /\ regHandlers = {}
    /\ \E s \in Sockets : replies[s] = <<SuccessFrame>> /\ Truthy(socketClientId[s])
    /\ messageQueue = EmptyMap /\ delivered = EmptyMap /\ nwrites = 0

\* C32: a tagsTrigger for a tag that exists writes true to the tag, replies
\* success and leaves the reset to a timer; the timer writes false, so that a
\* tag with no trigger and no timer pending is not true; no write to a tag
\* starts generatePayload or handleAPNMessage.  A tagsTrigger for a tag that
\* does not exist writes nothing and replies with the error.
C32_TagTriggerReset ==
    /\ [][\A h \in regHandlers :
             /\ (h.pc = "tag" /\ h \notin regHandlers' /\ h.tagId \in TagObjects) =>
                    /\ StoreHas(states', TagPath(h.tagId), Bool(TRUE))
                    /\ Replied(h.socket) = <<TagSuccessFrame>>
                    /\ [h EXCEPT !.pc = "timer"] \in regHandlers'
             /\ (h.pc = "tag" /\ h \notin regHandlers' /\ h.tagId \notin TagObjects) =>
                    /\ states' = states
                    /\ Replied(h.socket) = <<TagMissingFrame>>
             /\ (h.pc = "timer" /\ h \notin regHandlers') =>
                    StoreHas(states', TagPath(h.tagId), Bool(FALSE))]_vars
    /\ [](\A tagId \in TagIds :
             (~\E h \in regHandlers : h.tagId = tagId) =>
                 ~StoreHas(states, TagPath(tagId), Bool(TRUE)))
    /\ [](genHandlers = {} /\ apnHandlers = {})

\* the frames sent for clientId, followed by the frames of its queue
SentThenQueued(d, mq, clientId) ==
    FrameSeq(Log(d, clientId)) \o QueueFrames(Pending(mq, clientId))

\* C33: for every client id, the messages sent for it followed by those in
\* its queue are the messages handed to sendMessageToClient for it, in the
\* order they were handed over: a step only ever appends to that sequence.
C33_Conservation ==
    [][\A c \in ClientIds :
          LET before == SentThenQueued(delivered, messageQueue, c)
              after == SentThenQueued(delivered', messageQueue', c)
          IN  /\ Len(after) >= Len(before)
              /\ SubSeq(after, 1, Len(before)) = before]_vars

\* C34: one dispatch sends or enqueues at most one copy of its notification
\* for each client id, also when the id is recorded for several devices of
\* the scope.
C34_OneCopyPerDispatch ==
    [][\A h \in apnHandlers :
          (h.pc = "read" /\ h \notin apnHandlers') =>
              \A c \in ClientIds :
                  Len(SentThenQueued(delivered', messageQueue', c))
                      <= Len(SentThenQueued(delivered, messageQueue, c)) + 1]_vars

\* this step handles an authenticated setDeviceToken with clientId sent on s
RegistersAs(s, clientId) ==
    \E text \in RegTexts :
        /\ WsParse(text).action = "setDeviceToken"
        /\ authenticate(WsParse(text).username, WsParse(text).password)
        /\ WsParse(text).clientId = clientId
        /\ WebSocketMessage(s, text)

\* C35: a notification for a client id, sent directly or replayed, is written
\* to the socket the registry holds for that id or to a socket whose clientId
\* is that id, and a socket gets into the registry under an id, or gets the id
\* as its clientId, only in a step that handles an authenticated
\* setDeviceToken with that id sent on that socket.
C35_RecipientConfidentiality ==
    /\ [][\A c \in ClientIds :
             \A i \in 1..Len(Appended(c)) :
                 \/ c \in DOMAIN clients /\ clients[c] = Appended(c)[i].socket
                 \/ socketClientId[Appended(c)[i].socket] = c]_vars
    /\ [][\A c \in DOMAIN clients' :
             (c \notin DOMAIN clients \/ clients'[c] # clients[c]) =>
                 RegistersAs(clients'[c], c)]_vars
    /\ [][\A s \in Sockets :
             socketClientId'[s] # socketClientId[s] =>
                 RegistersAs(s, socketClientId'[s])]_vars

\* two open sockets registered under different ids, and a notification
\* written for the id of one of them
C35_Witness ==
    /\ \A s \in Sockets : readyState[s] = "OPEN" /\ Truthy(socketClientId[s])
    /\ \E s, t \in Sockets : socketClientId[s] # socketClientId[t]
    /\ \E c \in DOMAIN delivered :
           /\ delivered[c] # <<>>
           /\ \E t \in Sockets : socketClientId[t] # c

\* the notification messages of the payload writes
NotificationMessages ==
    {[action |-> "notification", payload |-> JSONparse(PayloadText(k))] :
        k \in 1..MaxEvents}

\* every client id but clientId has in mq the queue it has in messageQueue
OtherQueuesKept(mq, clientId) ==
    \A other \in ClientIds \ {clientId} :
        /\ other \in DOMAIN mq <=> other \in DOMAIN messageQueue
        /\ Pending(mq, other) = Pending(messageQueue, other)

\* C36: sendMessageToClient and queueMessageForClient for a client id, and
\* sendQueuedMessages for a socket of that id, leave the queue of every other
\* client id as it is, and the steps that run them leave the registry as it is.
C36_PerClientFrame ==
    /\ [](\A c \in ClientIds : \A message \in NotificationMessages :
             /\ OtherQueuesKept(sendMessageToClient(World, c, message).messageQueue, c)
             /\ OtherQueuesKept(queueMessageForClient(messageQueue, c, message), c))
    /\ [](\A s \in Sockets :
             OtherQueuesKept(sendQueuedMessages(World, s).messageQueue, socketClientId[s]))
    /\ [][(\/ \E h \in apnHandlers : ApnDispatch(h)
           \/ \E h \in regHandlers : RegReplyAndDrain(h)) => clients' = clients]_vars

\* the queue of one client id has been replayed while another id has a queue
C36_Witness ==
    \E c \in DOMAIN delivered : \E other \in (DOMAIN messageQueue) \ {c} :
        /\ \E i \in 1..Len(delivered[c]) : delivered[c][i].via = "replay"
        /\ messageQueue[other] # <<>>
        /\ c \in DOMAIN clients

\* C37: a dispatch that reads a `payload` value it cannot decode sends
\* nothing, enqueues nothing, leaves the store as it is and ends there: no
\* handler of that write remains, to clear the field or as a rejection.
C37_UndecodablePayload ==
    [][\A h \in apnHandlers :
          LET path == ApnBasePath(h.id) \o <<"payload">> IN
          (h.pc = "read" /\ h \notin apnHandlers' /\ HasState(path)
             /\ Truthy(StateVal(path)) /\ ~Decodable(StateVal(path)[2])) =>
              /\ delivered' = delivered
              /\ messageQueue' = messageQueue
              /\ states' = states
              /\ StateVal(path) = states'[path]
              /\ ~\E r \in apnHandlers' : r.w = h.w /\ r.id = h.id]_vars

\* an undecodable payload has been dispatched to the end and is still in its
\* field, after an earlier notification was enqueued
C37_Witness ==
    /\ apnHandlers = {} /\ signals = <<>>
    /\ \E id \in ScopeIds : id \in DOMAIN states /\ states[id] = Str(MalformedText)
    /\ messageQueue # EmptyMap

====
